---- MODULE Spec2Model ----
(***************************************************************************)
(* AegisGraph: the request pipeline of backend/orchestrator.py with its    *)
(* shared security mode, the auto-revert task, the sliding-window          *)
(* escalation detector (DatadogMCPTool), the authorization decision        *)
(* (GraphPolicyAgent), the safety scan (SafetyAgent), the intent           *)
(* classifier adapter (IntentAgent) and the response generator adapter     *)
(* (ResponseAgent).                                                        *)
(*                                                                         *)
(* Scheduling is asyncio's: one task runs at a time and keeps the event    *)
(* loop until it awaits real I/O (a Neo4j query) or ends.  `running' is    *)
(* the task that holds the loop; every other task is parked at an await.   *)
(***************************************************************************)
EXTENDS Integers, Sequences, FiniteSets, TLC

VARIABLES security_mode, revert_task, tasks,
          auth_denies, safety_blocks, last_escalation,
          now, running, served, req, hist

vars == <<security_mode, revert_task, tasks,
          auth_denies, safety_blocks, last_escalation,
          now, running, served, req, hist>>

----------------------------------------------------------------------------
(* Bounds of the exploration.                                              *)

MaxRequests == 3
MaxTime == 600
MaxEvents == 6
MaxExcess == 50
MaxTasks == 2
MaxBurst == 3

(* The slots in which requests are served.                                 *)
Procs == {1}
TickSteps == {300, 600}

(* The steps of the clock when the detector is driven on its own.          *)
ClockSteps == {60, 540}

----------------------------------------------------------------------------
(* Program constants.                                                      *)

window_seconds == 60
threshold == 3
cooldown_seconds == 600
revert_delay == 600

None == -1
NoTask == 0

Modes == {"NORMAL", "STRICT_MODE", "LOCKDOWN"}

(* Strings handed to set_mode: the three valid names, other spellings and  *)
(* a word that is no mode at all.                                          *)
ModeInputs == Modes \cup {"strict_mode", "Lockdown", "INVALID"}

(* The characters of each of these strings.                                *)
Spell ==
    [m \in ModeInputs |->
        CASE m = "NORMAL" -> <<"N","O","R","M","A","L">>
          [] m = "STRICT_MODE" -> <<"S","T","R","I","C","T","_","M","O","D","E">>
          [] m = "LOCKDOWN" -> <<"L","O","C","K","D","O","W","N">>
          [] m = "strict_mode" -> <<"s","t","r","i","c","t","_","m","o","d","e">>
          [] m = "Lockdown" -> <<"L","o","c","k","d","o","w","n">>
          [] m = "INVALID" -> <<"I","N","V","A","L","I","D">>]

----------------------------------------------------------------------------
(* Text.  A message is a sequence of characters; str.lower() maps every    *)
(* upper-case letter to its lower-case letter and leaves the rest alone;   *)
(* `needle in haystack' is substring search.                               *)

UpperLetters == <<"A","B","C","D","E","F","G","H","I","J","K","L","M",
                  "N","O","P","Q","R","S","T","U","V","W","X","Y","Z">>
LowerLetters == <<"a","b","c","d","e","f","g","h","i","j","k","l","m",
                  "n","o","p","q","r","s","t","u","v","w","x","y","z">>

LowerChar(c) ==
    IF \E i \in 1..26 : UpperLetters[i] = c
    THEN LowerLetters[CHOOSE i \in 1..26 : UpperLetters[i] = c]
    ELSE c

Lower(s) == [i \in 1..Len(s) |-> LowerChar(s[i])]

(* str.upper() likewise.                                                   *)
UpperChar(c) ==
    IF \E i \in 1..26 : LowerLetters[i] = c
    THEN UpperLetters[CHOOSE i \in 1..26 : LowerLetters[i] = c]
    ELSE c

Upper(s) == [i \in 1..Len(s) |-> UpperChar(s[i])]

Contains(hay, needle) ==
    \E k \in 0..(Len(hay) - Len(needle)) :
        \A i \in 1..Len(needle) : hay[k + i] = needle[i]

kw_emergency == <<"e","m","e","r","g","e","n","c","y">>
kw_unconscious == <<"u","n","c","o","n","s","c","i","o","u","s">>

kw_ssn == <<"s","s","n">>
kw_dob == <<"d","o","b">>
kw_home_address == <<"h","o","m","e"," ","a","d","d","r","e","s","s">>
kw_print_database == <<"p","r","i","n","t"," ","d","a","t","a","b","a","s","e">>

STRICT_MODE_KEYWORDS == <<kw_ssn, kw_dob, kw_home_address, kw_print_database>>

(* The messages requests are drawn from: a plain question, an emergency    *)
(* term in upper case, a deny-list keyword in mixed case, and a message    *)
(* with the other emergency term and a keyword, both in mixed case.        *)
msg_plain == <<"m","e","d","s","?">>
msg_EMERGENCY == <<"E","M","E","R","G","E","N","C","Y">>
msg_Home_Address == <<"H","o","m","e"," ","A","d","d","r","e","s","s">>
msg_Unconscious_DoB == <<"U","n","c","o","n","s","c","i","o","u","s"," ","D","o","B">>

Messages == {msg_plain, msg_EMERGENCY, msg_Home_Address, msg_Unconscious_DoB}

----------------------------------------------------------------------------
(* Values.  Every structured value is a record with a `kind' field, so     *)
(* that an absent value (Python's None) is a record too.                   *)

NoneRec == [kind |-> "None"]

(* dict.get(key, default) on a parsed JSON object.                         *)
Get(obj, key, default) == IF key \in DOMAIN obj THEN obj[key] ELSE default

Max(a, b) == IF a >= b THEN a ELSE b
Min(a, b) == IF a <= b THEN a ELSE b

----------------------------------------------------------------------------
(* backend/models/schemas.py.  Confidence is kept in hundredths and the    *)
(* PHI-exposure risk in tenths, so 1.0 is 100 resp. 10.                    *)

clamp_confidence(v) == Max(0, Min(100, v))

(* A validator that lets every score through.                              *)
clamp_risk_score_unclamped(v) == v

clamp_risk_score(v) == Max(0, Min(100, v))

clamp_phi_exposure_risk(v) == Max(0, Min(10, v))

IntentDecision(intent, needs, confidence, reason) ==
    [kind |-> "IntentDecision", intent |-> intent,
     needs_patient_context |-> needs,
     confidence |-> clamp_confidence(confidence), reason |-> reason]

PolicyDecision(authorized, scope, break_glass, reason_code) ==
    [kind |-> "PolicyDecision", authorized |-> authorized, scope |-> scope,
     break_glass |-> break_glass, reason_code |-> reason_code]

SafetyDecision(action, risk_score, phi, attack_types, reason) ==
    [kind |-> "SafetyDecision", action |-> action,
     risk_score |-> clamp_risk_score(risk_score),
     phi_exposure_risk |-> clamp_phi_exposure_risk(phi),
     attack_types |-> attack_types, reason |-> reason]

ResponseDecision(final_text, blocked, reason_codes, tokens_in, tokens_out, cost_usd) ==
    [kind |-> "ResponseDecision", final_text |-> final_text,
     blocked |-> blocked, reason_codes |-> reason_codes,
     tokens_in |-> tokens_in, tokens_out |-> tokens_out,
     cost_usd |-> cost_usd]

----------------------------------------------------------------------------
(* What the external model (Bedrock) hands back to an adapter: the call    *)
(* raises, or it returns text.  The text is described by what the parsing  *)
(* code looks at: whether it carries a markdown fence ("json" for          *)
(* ```json, "plain" for ```), whether the text (inside the fence, if any)  *)
(* is valid JSON, whether that JSON is an object, and the object's fields. *)

ModelOutput(raises, fence, valid, object, fields) ==
    [raises |-> raises, fence |-> fence, valid |-> valid,
     object |-> object, fields |-> fields]

NoFields == [absent |-> TRUE]

(* json.loads(response) of the whole text: succeeds only on bare JSON.     *)
WholeTextParses(out) == out.fence = "none" /\ out.valid

(* The adapters' shared parsing steps (intent_agent.py:41-55,              *)
(* safety_agent.py:59-73): "parsed", "fenced_parsed", "fenced_error" (the  *)
(* second json.loads raises inside the handler) or "unparseable" (no       *)
(* fence and no JSON).                                                     *)
ParseOutcome(out) ==
    IF WholeTextParses(out) THEN "parsed"
    ELSE IF out.fence \in {"json", "plain"}
         THEN (IF out.valid THEN "fenced_parsed" ELSE "fenced_error")
         ELSE "unparseable"

----------------------------------------------------------------------------
(* backend/agents/intent_agent.py                                          *)

IntentFallback ==
    IntentDecision("UNKNOWN", FALSE, 0, "Classification failed")

(* A classify whose fallback asks for patient data.                        *)
classify_fallback_needs_patient(out) ==
    IF out.raises \/ ParseOutcome(out) \in {"fenced_error", "unparseable"}
                 \/ ~out.object
    THEN IntentDecision("UNKNOWN", TRUE, 0, "Classification failed")
    ELSE IntentDecision(Get(out.fields, "intent", "UNKNOWN"),
                        Get(out.fields, "needs_patient_context", FALSE),
                        Get(out.fields, "confidence", 0),
                        Get(out.fields, "reason", ""))

(* IntentAgent.classify: one Bedrock call; any exception, an unparseable   *)
(* text included (the handler re-raises), gives the UNKNOWN fallback.      *)
classify(out) ==
    IF out.raises THEN IntentFallback
    ELSE LET po == ParseOutcome(out) IN
         IF po \in {"fenced_error", "unparseable"} THEN IntentFallback
         ELSE IF ~out.object THEN IntentFallback
         ELSE IntentDecision(Get(out.fields, "intent", "UNKNOWN"),
                             Get(out.fields, "needs_patient_context", FALSE),
                             Get(out.fields, "confidence", 0),
                             Get(out.fields, "reason", ""))

IntentOutputs ==
    { ModelOutput(TRUE, "none", FALSE, FALSE, NoFields),
      ModelOutput(FALSE, "none", FALSE, FALSE, NoFields),
      ModelOutput(FALSE, "none", TRUE, TRUE,
                  [intent |-> "TREATMENT", needs_patient_context |-> TRUE,
                   confidence |-> 95, reason |-> "patient question"]),
      ModelOutput(FALSE, "json", TRUE, TRUE,
                  [intent |-> "ADMIN", needs_patient_context |-> FALSE,
                   confidence |-> 150, reason |-> "admin question"]) }

----------------------------------------------------------------------------
(* backend/agents/safety_agent.py                                          *)

KeywordTags == <<"keyword_ssn", "keyword_dob", "keyword_home_address",
                 "keyword_print_database">>

(* The indices of the deny-list keywords found in the lower-cased message, *)
(* in list order.                                                          *)
RECURSIVE FoundFrom(_, _)
FoundFrom(message_lower, i) ==
    IF i > Len(STRICT_MODE_KEYWORDS) THEN <<>>
    ELSE (IF Contains(message_lower, STRICT_MODE_KEYWORDS[i])
          THEN <<KeywordTags[i]>> ELSE <<>>)
         \o FoundFrom(message_lower, i + 1)

(* The keyword check without lower-casing the message.                     *)
check_strict_mode_keywords_case_sensitive(message) ==
    LET found_keywords == FoundFrom(message, 1) IN
    [blocked |-> found_keywords # <<>>, attack_types |-> found_keywords]

(* SafetyAgent._check_strict_mode_keywords: (blocked, attack_types).       *)
check_strict_mode_keywords(message) ==
    LET found_keywords == FoundFrom(Lower(message), 1) IN
    [blocked |-> found_keywords # <<>>, attack_types |-> found_keywords]

SafetyFailSafe ==
    SafetyDecision("BLOCK", 100, 10, <<"bedrock_error">>,
                   "Safety scan failed, blocking as fail-safe")

SafetyUnparseable ==
    SafetyDecision("ALLOW", 10, 1, <<>>,
                   "Unable to parse safety response, defaulting to ALLOW")

(* The part of SafetyAgent.scan after the keyword pre-filter: the Bedrock  *)
(* call and the parsing of its text.                                       *)
bedrock_scan(out) ==
    IF out.raises THEN SafetyFailSafe
    ELSE LET po == ParseOutcome(out) IN
         IF po = "unparseable" THEN SafetyUnparseable
         ELSE IF po = "fenced_error" THEN SafetyFailSafe
         ELSE IF ~out.object THEN SafetyFailSafe
         ELSE SafetyDecision(Get(out.fields, "action", "ALLOW"),
                             Get(out.fields, "risk_score", 10),
                             Get(out.fields, "phi_exposure_risk", 1),
                             Get(out.fields, "attack_types", <<>>),
                             Get(out.fields, "reason", ""))

(* Whether scan applies the keyword pre-filter: it looks at the mode the   *)
(* request carries.                                                        *)
strict_mode_check(request_mode) == request_mode = "STRICT_MODE"

(* A scan that applies the keyword filter in every mode.                   *)
scan_filters_in_every_mode(request_mode, message, out) ==
    LET kw == check_strict_mode_keywords(message) IN
    IF kw.blocked
    THEN [decision |-> SafetyDecision("BLOCK", 100, 10, kw.attack_types,
                                      "STRICT_MODE keyword auto-block"),
          bedrock_calls |-> 0]
    ELSE [decision |-> bedrock_scan(out), bedrock_calls |-> 1]

(* SafetyAgent.scan: the decision and the number of Bedrock calls made.    *)
scan(request_mode, message, out) ==
    LET kw == check_strict_mode_keywords(message) IN
    IF strict_mode_check(request_mode) /\ kw.blocked
    THEN [decision |-> SafetyDecision("BLOCK", 100, 10, kw.attack_types,
                                      "STRICT_MODE keyword auto-block"),
          bedrock_calls |-> 0]
    ELSE [decision |-> bedrock_scan(out), bedrock_calls |-> 1]

SafetyOutputs ==
    { ModelOutput(TRUE, "none", FALSE, FALSE, NoFields),
      ModelOutput(FALSE, "none", FALSE, FALSE, NoFields),
      ModelOutput(FALSE, "plain", FALSE, FALSE, NoFields),
      ModelOutput(FALSE, "none", TRUE, TRUE,
                  [action |-> "ALLOW", risk_score |-> 5,
                   phi_exposure_risk |-> 1, reason |-> "Normal medical query"]),
      ModelOutput(FALSE, "json", TRUE, TRUE,
                  [action |-> "BLOCK", risk_score |-> 150,
                   phi_exposure_risk |-> 12,
                   attack_types |-> <<"prompt_injection">>,
                   reason |-> "Detected prompt injection attempt"]) }

----------------------------------------------------------------------------
(* backend/agents/graph_policy_agent.py                                    *)

(* What a Neo4j query of the agent comes back with.  The treats query:     *)
(* it raises, returns no row, or returns a row whose `authorized' column   *)
(* is false or true.  The ER-role query: it raises, returns no row, or a   *)
(* row whose `has_er_role' column is false or true.                        *)
TreatsOutcomes == {"raise", "empty", "absent", "present"}
RoleOutcomes == {"raise", "empty", "false", "true"}

(* The emergency terms looked for without lower-casing the message.       *)
has_emergency_keyword_case_sensitive(message) ==
    Contains(message, kw_emergency) \/ Contains(message, kw_unconscious)

has_emergency_keyword(message) ==
    LET message_lower == Lower(message) IN
    Contains(message_lower, kw_emergency) \/ Contains(message_lower, kw_unconscious)

(* A role check that takes anything but an explicit false for a grant.    *)
role_grants_break_glass_lenient(role) == role # "false"

(* The result of _check_break_glass once its role query has come back.     *)
role_grants_break_glass(role) == role = "true"

(* A short circuit that grants the full scope.                             *)
PolicyNoContext_full_scope ==
    PolicyDecision(TRUE, "FULL", FALSE, "no_patient_context_needed")

PolicyNoContext ==
    PolicyDecision(TRUE, "NONE", FALSE, "no_patient_context_needed")

(* A lookup failure that fails open.                                       *)
PolicyUnavailable_fail_open ==
    PolicyDecision(TRUE, "FULL", FALSE, "neo4j_unavailable")

PolicyUnavailable ==
    PolicyDecision(FALSE, "NONE", FALSE, "neo4j_unavailable")

PolicyNoResults ==
    PolicyDecision(FALSE, "NONE", FALSE, "no_relationship_found")

(* A break-glass result that grants the limited scope without authorizing. *)
PolicyBreakGlass_unauthorized ==
    PolicyDecision(FALSE, "LIMITED_ALLERGIES_MEDS", TRUE, "break_glass_emergency")

PolicyBreakGlass ==
    PolicyDecision(TRUE, "LIMITED_ALLERGIES_MEDS", TRUE, "break_glass_emergency")

(* A decision that grants full access whatever the row says.               *)
decide_from_row_grants(treats, break_glass) ==
    PolicyDecision(TRUE, "FULL", FALSE, "treats_relationship_found")

(* GraphPolicyAgent.check from the row of the treats query on: the value   *)
(* of _check_break_glass decides first, then the row's `authorized'.       *)
decide_from_row(treats, break_glass) ==
    IF break_glass THEN PolicyBreakGlass
    ELSE IF treats = "present"
         THEN PolicyDecision(TRUE, "FULL", FALSE, "treats_relationship_found")
         ELSE PolicyDecision(FALSE, "NONE", FALSE, "no_treats_relationship")

----------------------------------------------------------------------------
(* backend/tools/datadog_mcp_tool.py                                       *)

(* A pruning that drops nothing.                                           *)
PruneLeft_keeps_all(buf, cutoff) == buf

(* DatadogMCPTool._count_recent prunes from the left while the oldest      *)
(* timestamp is older than the cutoff.                                     *)
RECURSIVE PruneLeft(_, _)
PruneLeft(buf, cutoff) ==
    IF buf # <<>> /\ Head(buf) < cutoff
    THEN PruneLeft(Tail(buf), cutoff)
    ELSE buf

(* A cooldown gate that is always open.                                    *)
in_cooldown_never(last, t) == FALSE

in_cooldown(last, t) == last # None /\ t - last < cooldown_seconds

(* A should_escalate that prunes both buffers before it compares.          *)
should_escalate_prunes_both(denies, blocks, last, t) ==
    IF in_cooldown(last, t)
    THEN [ret |-> FALSE, denies |-> denies, blocks |-> blocks, last |-> last]
    ELSE LET d2 == PruneLeft(denies, t - window_seconds)
             b2 == PruneLeft(blocks, t - window_seconds) IN
         IF Len(d2) >= threshold \/ Len(b2) >= threshold
         THEN [ret |-> TRUE, denies |-> d2, blocks |-> b2, last |-> t]
         ELSE [ret |-> FALSE, denies |-> d2, blocks |-> b2, last |-> last]

(* A should_escalate that compares the two counts together with the        *)
(* threshold.                                                              *)
should_escalate_counts_together(denies, blocks, last, t) ==
    IF in_cooldown(last, t)
    THEN [ret |-> FALSE, denies |-> denies, blocks |-> blocks, last |-> last]
    ELSE LET d2 == PruneLeft(denies, t - window_seconds)
             b2 == PruneLeft(blocks, t - window_seconds) IN
         IF Len(d2) + Len(b2) >= threshold
         THEN [ret |-> TRUE, denies |-> d2, blocks |-> b2, last |-> t]
         ELSE [ret |-> FALSE, denies |-> d2, blocks |-> b2, last |-> last]

(* DatadogMCPTool.should_escalate at time t: the value returned and the    *)
(* detector's fields afterwards.  The block buffer is looked at (and       *)
(* pruned) only when the deny buffer is below the threshold.               *)
should_escalate(denies, blocks, last, t) ==
    IF in_cooldown(last, t)
    THEN [ret |-> FALSE, denies |-> denies, blocks |-> blocks, last |-> last]
    ELSE LET d2 == PruneLeft(denies, t - window_seconds) IN
         IF Len(d2) >= threshold
         THEN [ret |-> TRUE, denies |-> d2, blocks |-> blocks, last |-> t]
         ELSE LET b2 == PruneLeft(blocks, t - window_seconds) IN
              IF Len(b2) >= threshold
              THEN [ret |-> TRUE, denies |-> d2, blocks |-> b2, last |-> t]
              ELSE [ret |-> FALSE, denies |-> d2, blocks |-> b2, last |-> last]

(* A configured should_escalate that answers true without stamping the     *)
(* escalation.                                                             *)
should_escalate_of_never_stamps(cfg, denies, blocks, last, t) ==
    IF last # None /\ t - last < cfg.cooldown
    THEN [ret |-> FALSE, denies |-> denies, blocks |-> blocks, last |-> last]
    ELSE LET d2 == PruneLeft(denies, t - cfg.window) IN
         IF Len(d2) >= cfg.threshold
         THEN [ret |-> TRUE, denies |-> d2, blocks |-> blocks, last |-> last]
         ELSE LET b2 == PruneLeft(blocks, t - cfg.window) IN
              IF Len(b2) >= cfg.threshold
              THEN [ret |-> TRUE, denies |-> d2, blocks |-> b2, last |-> last]
              ELSE [ret |-> FALSE, denies |-> d2, blocks |-> b2, last |-> last]

(* DatadogMCPTool.should_escalate of a detector constructed with the       *)
(* configuration cfg (its _window, _threshold and _cooldown), at time t.   *)
should_escalate_of(cfg, denies, blocks, last, t) ==
    IF last # None /\ t - last < cfg.cooldown
    THEN [ret |-> FALSE, denies |-> denies, blocks |-> blocks, last |-> last]
    ELSE LET d2 == PruneLeft(denies, t - cfg.window) IN
         IF Len(d2) >= cfg.threshold
         THEN [ret |-> TRUE, denies |-> d2, blocks |-> blocks, last |-> t]
         ELSE LET b2 == PruneLeft(blocks, t - cfg.window) IN
              IF Len(b2) >= cfg.threshold
              THEN [ret |-> TRUE, denies |-> d2, blocks |-> b2, last |-> t]
              ELSE [ret |-> FALSE, denies |-> d2, blocks |-> b2, last |-> last]

----------------------------------------------------------------------------
(* backend/agents/response_agent.py                                        *)

(* What the generator's Bedrock call comes back with: it raises, or text   *)
(* together with the token estimates made from prompt and text.            *)
GenOutputs ==
    { [raises |-> TRUE, text |-> "", tokens_in |-> 0, tokens_out |-> 0],
      [raises |-> FALSE, text |-> "answer", tokens_in |-> 50, tokens_out |-> 20] }

(* ResponseAgent._calculate_cost, in millionths of a dollar: 0.0008 per    *)
(* 1000 input tokens and 0.0016 per 1000 output tokens, rounded to six     *)
(* decimals.                                                               *)
calculate_cost_unknown(tokens_in, tokens_out) == None

calculate_cost(tokens_in, tokens_out) ==
    (tokens_in * 800 + tokens_out * 1600 + 500) \div 1000

GenerationFailed ==
    ResponseDecision("", TRUE, <<"bedrock_error">>, None, None, None)

(* ResponseAgent.generate once the patient context is in hand.             *)
generate(out) ==
    IF out.raises THEN GenerationFailed
    ELSE ResponseDecision(out.text, FALSE, <<>>, out.tokens_in, out.tokens_out,
                          calculate_cost(out.tokens_in, out.tokens_out))

(* ResponseAgent._get_patient_context queries Neo4j unless the scope is    *)
(* NONE.                                                                   *)
context_needs_query(scope) == scope # "NONE"

----------------------------------------------------------------------------
(* backend/tools/minimax_client.py and the call made to it.                *)

(* The parameters speak_alert declares besides self, and the keyword       *)
(* arguments run_pipeline passes next to the positional text.              *)
speak_alert_params == {"text"}
alert_call_positional == 1
alert_call_keywords == {"request_id", "security_mode", "doc_id", "patient_id"}

(* Python binds a call's arguments before the body runs: a keyword the     *)
(* function does not declare is a TypeError raised at the call.            *)
call_binds(params, positional, keywords) ==
    /\ keywords \subseteq params
    /\ positional <= Cardinality(params)

----------------------------------------------------------------------------
(* backend/orchestrator.py: state.                                         *)

(* One slot per concurrently served request: where run_pipeline stands     *)
(* (pc), the request, the decisions made so far, the outcome dictionary,   *)
(* the exception that left run_pipeline (exc), what the lookups returned,  *)
(* and the number of calls made to each collaborator for this request.     *)
IdleRequest ==
    [pc |-> "idle", message |-> <<>>, security_mode |-> "NORMAL",
     intent |-> NoneRec, policy |-> NoneRec, safety |-> NoneRec,
     response |-> NoneRec, result |-> NoneRec, exc |-> "",
     intent_out |-> "", treats |-> "", role |-> "", safety_out |-> "",
     audit_ok |-> TRUE,
     n_intent |-> 0, n_treats |-> 0, n_role |-> 0, n_safety |-> 0,
     n_alert |-> 0, n_history |-> 0, n_generate |-> 0, n_audit |-> 0,
     n_deny |-> 0, n_block |-> 0, n_check |-> 0]

(* The record of what callers of the mode functions and of the detector   *)
(* have seen: `writer' is the function that last wrote the mode, `by' the  *)
(* last call, `arg' its argument, `prev' the mode it found, `ret' the      *)
(* value should_escalate returned to it, `status' the endpoint's status    *)
(* code, `cancelled' whether the call cancelled a revert task.  NoHist is  *)
(* the record that is not kept.                                            *)
NoHist ==
    [writer |-> "off", by |-> "", arg |-> "", prev |-> "", ret |-> FALSE,
     status |-> 0, cancelled |-> FALSE]

FirstHist == [NoHist EXCEPT !.writer = "init"]

Log(h) == IF hist = NoHist THEN NoHist ELSE h

Init ==
    /\ security_mode = "NORMAL"
    /\ revert_task = None
    /\ tasks = <<>>
    /\ auth_denies = <<>>
    /\ safety_blocks = <<>>
    /\ last_escalation = None
    /\ now = 0
    /\ running = NoTask
    /\ served = 0
    /\ req = [p \in Procs |-> IdleRequest]
    /\ hist = NoHist

----------------------------------------------------------------------------
(* The outcome dictionaries run_pipeline builds.  A reason is the pair of  *)
(* its fixed text and the list of codes interpolated into it.              *)

Reason(text, detail) == <<text, detail>>

LockdownResult(r) ==
    [kind |-> "result", blocked |-> TRUE,
     reason |-> Reason("System is in LOCKDOWN mode", <<>>),
     final_text |-> "", security_mode |-> r.security_mode]

DeniedResult(r) ==
    [kind |-> "result", blocked |-> TRUE,
     reason |-> Reason("Authorization denied: ", <<r.policy.reason_code>>),
     final_text |-> "", security_mode |-> r.security_mode,
     policy_decision |-> [authorized |-> r.policy.authorized,
                          scope |-> r.policy.scope,
                          reason_code |-> r.policy.reason_code]]

SafetyBlockResult(r) ==
    [kind |-> "result", blocked |-> TRUE,
     reason |-> Reason("Safety block: ", <<r.safety.reason>>),
     final_text |-> "", security_mode |-> r.security_mode,
     safety_decision |-> [action |-> r.safety.action,
                          risk_score |-> r.safety.risk_score,
                          attack_types |-> r.safety.attack_types]]

(* A generation-failure outcome that is not blocked.                       *)
GenerationFailedResult_unblocked(r) ==
    [kind |-> "result", blocked |-> FALSE,
     reason |-> Reason("Response generation failed: ", r.response.reason_codes),
     final_text |-> "", security_mode |-> r.security_mode]

(* A generation-failure outcome that carries token and cost figures.       *)
GenerationFailedResult_with_figures(r) ==
    [kind |-> "result", blocked |-> TRUE,
     reason |-> Reason("Response generation failed: ", r.response.reason_codes),
     final_text |-> "", security_mode |-> r.security_mode,
     tokens_in |-> 0, tokens_out |-> 0, cost_usd |-> 0]

GenerationFailedResult(r) ==
    [kind |-> "result", blocked |-> TRUE,
     reason |-> Reason("Response generation failed: ", r.response.reason_codes),
     final_text |-> "", security_mode |-> r.security_mode]

SuccessResult(r) ==
    [kind |-> "result", blocked |-> FALSE, reason |-> Reason("", <<>>),
     final_text |-> r.response.final_text,
     security_mode |-> r.security_mode,
     tokens_in |-> r.response.tokens_in,
     tokens_out |-> r.response.tokens_out,
     cost_usd |-> r.response.cost_usd,
     intent |-> r.intent.intent,
     authorized |-> r.policy.authorized,
     scope |-> r.policy.scope,
     break_glass |-> r.policy.break_glass]

----------------------------------------------------------------------------
(* backend/orchestrator.py: the mode and the revert task.                  *)

(* task.done(): the task has finished or has been cancelled.               *)
task_done(i) == tasks[i].state # "sleeping"

(* A cancellation that leaves the pending task asleep.                     *)
CancelPending_leaves_asleep(ts) == ts

(* `if _revert_task and not _revert_task.done(): _revert_task.cancel()'    *)
CancelPending(ts) ==
    IF revert_task # None /\ ~task_done(revert_task)
    THEN [ts EXCEPT ![revert_task].state = "cancelled"]
    ELSE ts

(* A set_mode that stores whatever string it is given.                     *)
coerce_mode_stores_any(mode) == mode

(* set_mode coerces a string that is no mode name to NORMAL.               *)
coerce_mode(mode) == IF mode \in Modes THEN mode ELSE "NORMAL"

(* `_revert_task and not _revert_task.done()'                              *)
revert_pending == revert_task # None /\ ~task_done(revert_task)

(* A get_mode that answers NORMAL without reading the mode.                *)
get_mode_answers_normal == "NORMAL"

(* get_mode() returns _security_mode.                                      *)
get_mode == security_mode

(* A set_mode that leaves the revert task alone.                           *)
set_mode_keeps_timer(mode) ==
    /\ security_mode' = coerce_mode(mode)
    /\ UNCHANGED <<tasks, revert_task>>

(* The body of set_mode(mode): the coerced mode is written and a revert    *)
(* task that is not done is cancelled and forgotten.                       *)
set_mode(mode) ==
    /\ security_mode' = coerce_mode(mode)
    /\ tasks' = CancelPending(tasks)
    /\ revert_task' = IF revert_task # None /\ ~task_done(revert_task)
                      THEN None ELSE revert_task

(* set_mode(mode) called directly.                                         *)
SetMode(mode) ==
    /\ running = NoTask
    /\ set_mode(mode)
    /\ hist' = Log([writer |-> "set_mode", by |-> "set_mode", arg |-> mode,
                    prev |-> security_mode, ret |-> FALSE, status |-> 0,
                    cancelled |-> revert_pending])
    /\ UNCHANGED <<auth_denies, safety_blocks, last_escalation,
                   now, running, served, req>>

(* An upper() that turns every string into NORMAL.                         *)
upper_always_normal == [m \in ModeInputs |-> "NORMAL"]

(* An upper() that leaves every string as it is.                           *)
upper_leaves_case == [m \in ModeInputs |-> m]

(* request.mode.upper(): the string spelled by the upper-cased characters. *)
upper ==
    [m \in ModeInputs |->
        CHOOSE v \in ModeInputs : Spell[v] = Upper(Spell[m])]

(* POST /mode (main.set_mode_endpoint): the value is upper-cased; a value  *)
(* that is then no mode name is answered with status 400 before set_mode   *)
(* is reached, any other is handed to set_mode.                            *)
set_mode_endpoint(m) ==
    /\ running = NoTask
    /\ LET mode == upper[m] IN
       IF mode \in Modes
       THEN /\ set_mode(mode)
            /\ hist' = Log([writer |-> "set_mode", by |-> "set_mode_endpoint",
                            arg |-> m, prev |-> security_mode, ret |-> FALSE,
                            status |-> 200, cancelled |-> revert_pending])
       ELSE /\ hist' = Log([hist EXCEPT !.by = "set_mode_endpoint",
                                        !.arg = m, !.prev = security_mode,
                                        !.ret = FALSE, !.status = 400,
                                        !.cancelled = FALSE])
            /\ UNCHANGED <<security_mode, tasks, revert_task>>
    /\ UNCHANGED <<auth_denies, safety_blocks, last_escalation,
                   now, running, served, req>>

(* An escalation that overrides whatever mode it finds.                    *)
escalates_from_any_mode(ret, mode) == ret

(* An escalation check that never writes the mode.                         *)
escalates_never(ret, mode) == FALSE

(* `if should_escalate(): ... if _security_mode == "NORMAL":'              *)
escalates(ret, mode) == ret /\ mode = "NORMAL"

(* A revert that never writes.                                             *)
revert_writes_never(mode) == FALSE

(* `if _security_mode == "STRICT_MODE":' in _schedule_revert.              *)
revert_writes(mode) == mode = "STRICT_MODE"

(* The write of _check_and_escalate (lines 340-348): STRICT_MODE, a revert *)
(* task that is not done cancelled, and a new one created.                 *)
escalation_write ==
    /\ security_mode' = "STRICT_MODE"
    /\ tasks' = Append(CancelPending(tasks),
                       [state |-> "sleeping", wake |-> now + revert_delay])
    /\ revert_task' = Len(tasks) + 1

(* _check_and_escalate on the detector whose buffers are denies and        *)
(* blocks: should_escalate, and on true the NORMAL -> STRICT_MODE write    *)
(* with the revert task scheduled revert_delay seconds ahead.              *)
CheckAndEscalate(denies, blocks) ==
    LET r == should_escalate(denies, blocks, last_escalation, now) IN
    /\ auth_denies' = r.denies
    /\ safety_blocks' = r.blocks
    /\ last_escalation' = r.last
    /\ hist' = Log([writer |-> IF escalates(r.ret, security_mode)
                               THEN "_check_and_escalate" ELSE hist.writer,
                    by |-> "_check_and_escalate", arg |-> "",
                    prev |-> security_mode, ret |-> r.ret, status |-> 0,
                    cancelled |-> FALSE])
    /\ IF escalates(r.ret, security_mode)
       THEN escalation_write
       ELSE UNCHANGED <<security_mode, tasks, revert_task>>

(* _schedule_revert after its sleep: NORMAL is written only over           *)
(* STRICT_MODE.                                                            *)
RevertFire(i) ==
    /\ running = NoTask
    /\ tasks[i].state = "sleeping"
    /\ now >= tasks[i].wake
    /\ security_mode' = IF revert_writes(security_mode) THEN "NORMAL"
                        ELSE security_mode
    /\ tasks' = [tasks EXCEPT ![i].state = "done"]
    /\ hist' = Log([writer |-> IF revert_writes(security_mode)
                               THEN "_schedule_revert" ELSE hist.writer,
                    by |-> "_schedule_revert", arg |-> "",
                    prev |-> security_mode, ret |-> FALSE, status |-> 0,
                    cancelled |-> FALSE])
    /\ UNCHANGED <<revert_task, auth_denies, safety_blocks, last_escalation,
                   now, running, served, req>>

(* time.monotonic() advances while no task holds the loop.                 *)
Tick ==
    /\ running = NoTask
    /\ \E d \in TickSteps :
          /\ now + d <= MaxTime
          /\ now' = now + d
    /\ UNCHANGED <<security_mode, revert_task, tasks, auth_denies,
                   safety_blocks, last_escalation, running, served, req,
                   hist>>

----------------------------------------------------------------------------
(* backend/orchestrator.py: run_pipeline, cut at its awaits.               *)

Others == <<security_mode, revert_task, tasks, auth_denies, safety_blocks,
            last_escalation, now, hist>>

(* A LOCKDOWN gate that lets every request through.                        *)
lockdown_gate_open(request_mode) == FALSE

(* A LOCKDOWN gate that refuses STRICT_MODE instead.                       *)
lockdown_gate_refuses_strict(request_mode) == request_mode = "STRICT_MODE"

(* GATE 1 of run_pipeline.                                                 *)
lockdown_gate(request_mode) == request_mode = "LOCKDOWN"

(* A pipeline entry that keeps the mode the caller declared.               *)
entry_mode_keeps_declared(declared, current_mode) == declared

(* `request.security_mode = current_mode': the mode the request carries    *)
(* from the entry on.                                                      *)
entry_mode(declared, current_mode) == current_mode

(* A slot is free when no request is in flight in it.                      *)
free(p) == req[p].pc = "idle"

(* A request arrives (it takes the lowest free slot) and run_pipeline runs *)
(* up to the LOCKDOWN gate: the live mode replaces the mode the request    *)
(* declares; in LOCKDOWN the refusal is built and the task parks in        *)
(* _save_chat_history.                                                     *)
StartWith(p, declared) ==
    /\ running = NoTask
    /\ free(p)
    /\ \A q \in Procs : q < p => ~free(q)
    /\ served < MaxRequests
    /\ served' = served + 1
    /\ \E m \in Messages :
          LET current_mode == get_mode
              r == [IdleRequest EXCEPT !.message = m,
                                       !.security_mode =
                                           entry_mode(declared, current_mode)]
          IN IF lockdown_gate(r.security_mode)
             THEN /\ req' = [req EXCEPT ![p] =
                               [r EXCEPT !.pc = "save",
                                         !.result = LockdownResult(r)]]
                  /\ running' = NoTask
             ELSE /\ req' = [req EXCEPT ![p] = [r EXCEPT !.pc = "classify"]]
                  /\ running' = p
    /\ UNCHANGED Others

(* The request arrives declaring any of the three modes (ChatRequest       *)
(* rejects every other value).                                             *)
Start(p) == \E declared \in Modes : StartWith(p, declared)

(* intent_agent.classify(request): synchronous.                            *)
Classify(p) ==
    /\ running = p
    /\ req[p].pc = "classify"
    /\ \E out \in IntentOutputs :
          req' = [req EXCEPT ![p].intent = classify(out),
                             ![p].intent_out = IF out.raises THEN "raise"
                                               ELSE ParseOutcome(out),
                             ![p].n_intent = @ + 1,
                             ![p].pc = "check"]
    /\ UNCHANGED <<Others, running, served>>

(* graph_policy_agent.check up to its first await: the short circuit for   *)
(* an intent that needs no patient context, else the treats query.         *)
Check(p) ==
    /\ running = p
    /\ req[p].pc = "check"
    /\ IF ~req[p].intent.needs_patient_context
       THEN /\ req' = [req EXCEPT ![p].policy = PolicyNoContext,
                                  ![p].pc = "deny_gate"]
            /\ running' = p
       ELSE /\ req' = [req EXCEPT ![p].n_treats = @ + 1,
                                  ![p].pc = "await_treats"]
            /\ running' = NoTask
    /\ UNCHANGED <<Others, served>>

(* The treats query comes back.  A raise is caught by check's handler; no  *)
(* row ends the decision; a row leads into _check_break_glass, which       *)
(* queries the ER role only for a message with an emergency term.          *)
TreatsReturn(p) ==
    /\ running = NoTask
    /\ req[p].pc = "await_treats"
    /\ \E t \in TreatsOutcomes :
          IF t = "raise"
          THEN /\ req' = [req EXCEPT ![p].treats = t,
                                     ![p].policy = PolicyUnavailable,
                                     ![p].pc = "deny_gate"]
               /\ running' = p
          ELSE IF t = "empty"
          THEN /\ req' = [req EXCEPT ![p].treats = t,
                                     ![p].policy = PolicyNoResults,
                                     ![p].pc = "deny_gate"]
               /\ running' = p
          ELSE IF has_emergency_keyword(req[p].message)
          THEN /\ req' = [req EXCEPT ![p].treats = t,
                                     ![p].n_role = @ + 1,
                                     ![p].pc = "await_role"]
               /\ running' = NoTask
          ELSE /\ req' = [req EXCEPT ![p].treats = t,
                                     ![p].policy = decide_from_row(t, FALSE),
                                     ![p].pc = "deny_gate"]
               /\ running' = p
    /\ UNCHANGED <<Others, served>>

(* The ER-role query comes back; a raise is swallowed by                   *)
(* _check_break_glass and counts as no break-glass.                        *)
RoleReturn(p) ==
    /\ running = NoTask
    /\ req[p].pc = "await_role"
    /\ \E ro \in RoleOutcomes :
          req' = [req EXCEPT ![p].role = ro,
                             ![p].policy = decide_from_row(req[p].treats,
                                               role_grants_break_glass(ro)),
                             ![p].pc = "deny_gate"]
    /\ running' = p
    /\ UNCHANGED <<Others, served>>

(* A deny gate that refuses nothing.                                       *)
denied_never(policy) == FALSE

(* The deny gate (run_pipeline lines 125-170).                             *)
denied(policy) == ~policy.authorized /\ ~policy.break_glass

(* A deny gate that runs the escalation check for every request.           *)
DenyGate_always_checks(p) ==
    /\ running = p
    /\ req[p].pc = "deny_gate"
    /\ IF denied(req[p].policy)
       THEN /\ CheckAndEscalate(Append(auth_denies, now), safety_blocks)
            /\ req' = [req EXCEPT ![p].n_deny = @ + 1,
                                  ![p].n_check = @ + 1,
                                  ![p].result = DeniedResult(req[p]),
                                  ![p].pc = "save"]
            /\ running' = NoTask
       ELSE /\ CheckAndEscalate(auth_denies, safety_blocks)
            /\ req' = [req EXCEPT ![p].n_check = @ + 1,
                                  ![p].pc = "scan"]
            /\ UNCHANGED running
    /\ UNCHANGED <<now, served>>

DenyGate(p) ==
    /\ running = p
    /\ req[p].pc = "deny_gate"
    /\ IF denied(req[p].policy)
       THEN /\ CheckAndEscalate(Append(auth_denies, now), safety_blocks)
            /\ req' = [req EXCEPT ![p].n_deny = @ + 1,
                                  ![p].n_check = @ + 1,
                                  ![p].result = DeniedResult(req[p]),
                                  ![p].pc = "save"]
            /\ running' = NoTask
       ELSE /\ req' = [req EXCEPT ![p].pc = "scan"]
            /\ UNCHANGED <<security_mode, revert_task, tasks, auth_denies,
                           safety_blocks, last_escalation, running, hist>>
    /\ UNCHANGED <<now, served>>

(* safety_agent.scan(request, policy_decision): synchronous.               *)
Scan(p) ==
    /\ running = p
    /\ req[p].pc = "scan"
    /\ \E out \in SafetyOutputs :
          LET s == scan(req[p].security_mode, req[p].message, out) IN
          req' = [req EXCEPT ![p].safety = s.decision,
                             ![p].n_safety = @ + s.bedrock_calls,
                             ![p].safety_out =
                                 IF s.bedrock_calls = 0 THEN "not_called"
                                 ELSE IF out.raises THEN "raise"
                                 ELSE ParseOutcome(out),
                             ![p].pc = "block_gate"]
    /\ UNCHANGED <<Others, running, served>>

(* The block gate (run_pipeline lines 182-235): the block event is         *)
(* recorded, then speak_alert is called.  When the call's arguments do not *)
(* bind, the TypeError leaves run_pipeline at once.  Past the alert (whose *)
(* own failures speak_alert swallows) come the escalation check and the    *)
(* refusal.  A request that is not blocked goes on to the query for the    *)
(* conversation history.                                                   *)
BlockGate(p) ==
    /\ running = p
    /\ req[p].pc = "block_gate"
    /\ IF req[p].safety.action = "BLOCK"
       THEN IF ~call_binds(speak_alert_params, alert_call_positional,
                           alert_call_keywords)
            THEN /\ safety_blocks' = Append(safety_blocks, now)
                 /\ req' = [req EXCEPT ![p].n_block = @ + 1,
                                       ![p].exc = "TypeError",
                                       ![p].pc = "raised"]
                 /\ running' = p
                 /\ UNCHANGED <<security_mode, revert_task, tasks,
                                auth_denies, last_escalation, hist>>
            ELSE /\ CheckAndEscalate(auth_denies, Append(safety_blocks, now))
                 /\ req' = [req EXCEPT ![p].n_block = @ + 1,
                                       ![p].n_alert = @ + 1,
                                       ![p].n_check = @ + 1,
                                       ![p].result = SafetyBlockResult(req[p]),
                                       ![p].pc = "save"]
                 /\ running' = NoTask
       ELSE /\ req' = [req EXCEPT ![p].n_history = @ + 1,
                                  ![p].pc = "await_history"]
            /\ running' = NoTask
            /\ UNCHANGED <<security_mode, revert_task, tasks, auth_denies,
                           safety_blocks, last_escalation, hist>>
    /\ UNCHANGED <<now, served>>

(* The conversation-history query (run_pipeline lines 251-256) comes back. *)
(* It is made outside any handler: a raise leaves run_pipeline.  Otherwise *)
(* response_agent.generate starts: with a scope other than NONE it awaits  *)
(* the patient-context query, else it calls Bedrock at once.               *)
HistoryReturn(p) ==
    /\ running = NoTask
    /\ req[p].pc = "await_history"
    /\ \E ok \in BOOLEAN :
          IF ~ok
          THEN /\ req' = [req EXCEPT ![p].exc = "Neo4jError",
                                     ![p].pc = "raised"]
               /\ running' = p
          ELSE IF context_needs_query(req[p].policy.scope)
          THEN /\ req' = [req EXCEPT ![p].n_generate = @ + 1,
                                     ![p].pc = "await_context"]
               /\ running' = NoTask
          ELSE /\ \E out \in GenOutputs :
                     req' = [req EXCEPT ![p].n_generate = @ + 1,
                                        ![p].response = generate(out),
                                        ![p].pc = "finish"]
               /\ running' = p
    /\ UNCHANGED <<Others, served>>

(* The patient-context query comes back (a raise is swallowed by           *)
(* _get_patient_context) and Bedrock is called.                            *)
ContextReturn(p) ==
    /\ running = NoTask
    /\ req[p].pc = "await_context"
    /\ \E out \in GenOutputs :
          req' = [req EXCEPT ![p].response = generate(out),
                             ![p].pc = "finish"]
    /\ running' = p
    /\ UNCHANGED <<Others, served>>

(* run_pipeline lines 268-327: the generation failure or the success.      *)
Finish(p) ==
    /\ running = p
    /\ req[p].pc = "finish"
    /\ req' = [req EXCEPT ![p].result =
                              IF req[p].response.blocked
                              THEN GenerationFailedResult(req[p])
                              ELSE SuccessResult(req[p]),
                          ![p].pc = "save"]
    /\ running' = NoTask
    /\ UNCHANGED <<Others, served>>

(* _save_chat_history: the append is attempted, its failure is swallowed,  *)
(* and run_pipeline returns the outcome.                                   *)
Save(p) ==
    /\ running = NoTask
    /\ req[p].pc = "save"
    /\ \E ok \in BOOLEAN :
          req' = [req EXCEPT ![p].n_audit = @ + 1,
                             ![p].audit_ok = ok,
                             ![p].pc = "done"]
    /\ running' = p
    /\ UNCHANGED <<Others, served>>

(* The caller (chat_endpoint) takes the outcome or the exception of        *)
(* run_pipeline and the slot is free again.                                *)
Return(p) ==
    /\ running = p
    /\ req[p].pc \in {"done", "raised"}
    /\ req' = [req EXCEPT ![p] = IdleRequest]
    /\ running' = NoTask
    /\ UNCHANGED <<Others, served>>

----------------------------------------------------------------------------

Next ==
    \/ \E p \in Procs : Start(p)
    \/ \E p \in Procs : Classify(p)
    \/ \E p \in Procs : Check(p)
    \/ \E p \in Procs : TreatsReturn(p)
    \/ \E p \in Procs : RoleReturn(p)
    \/ \E p \in Procs : DenyGate(p)
    \/ \E p \in Procs : Scan(p)
    \/ \E p \in Procs : BlockGate(p)
    \/ \E p \in Procs : HistoryReturn(p)
    \/ \E p \in Procs : ContextReturn(p)
    \/ \E p \in Procs : Finish(p)
    \/ \E p \in Procs : Save(p)
    \/ \E p \in Procs : Return(p)
    \/ \E m \in ModeInputs : SetMode(m)
    \/ \E m \in ModeInputs : set_mode_endpoint(m)
    \/ \E i \in 1..Len(tasks) : RevertFire(i)
    \/ Tick

Spec == Init /\ [][Next]_vars

(* The mode controller watched from the eve of an escalation: the state    *)
(* in which threshold - 1 requests have just been refused at the deny      *)
(* gate and one more request can be served, with the history kept.         *)
InitBurst ==
    /\ security_mode = "NORMAL"
    /\ revert_task = None
    /\ tasks = <<>>
    /\ auth_denies = [i \in 1..(threshold - 1) |-> 0]
    /\ safety_blocks = <<>>
    /\ last_escalation = None
    /\ now = 0
    /\ running = NoTask
    /\ served = MaxRequests - 1
    /\ req = [p \in Procs |-> IdleRequest]
    /\ hist = FirstHist

SpecMode == InitBurst /\ [][Next]_vars

(* The same with room for two more requests.                               *)
InitTwoMore ==
    /\ security_mode = "NORMAL"
    /\ revert_task = None
    /\ tasks = <<>>
    /\ auth_denies = [i \in 1..(threshold - 1) |-> 0]
    /\ safety_blocks = <<>>
    /\ last_escalation = None
    /\ now = 0
    /\ running = NoTask
    /\ served = MaxRequests - 2
    /\ req = [p \in Procs |-> IdleRequest]
    /\ hist = FirstHist

SpecTwoMore == InitTwoMore /\ [][Next]_vars

(* The steps a request takes while it holds the event loop.                *)
Runs ==
    \E p \in Procs :
        \/ Classify(p) \/ Check(p) \/ DenyGate(p) \/ Scan(p)
        \/ BlockGate(p) \/ Finish(p) \/ Return(p)

(* The same under asyncio's scheduling: a coroutine that holds the loop    *)
(* runs on to its next await, the clock advances, and a task whose sleep   *)
(* is over is resumed once the loop is free.  Nothing is assumed of the    *)
(* arrival of requests, of set_mode calls or of the replies to queries.    *)
FairSpecMode ==
    /\ InitBurst
    /\ [][Next]_vars
    /\ WF_vars(Runs)
    /\ WF_vars(Tick)
    /\ WF_vars(\E i \in 1..Len(tasks) : RevertFire(i))

----------------------------------------------------------------------------
(* The detector driven on its own, as test_datadog_mcp_tool drives it: a   *)
(* fresh DatadogMCPTool(60, 3, 600) on which events are recorded and       *)
(* should_escalate is called while the clock advances.                     *)

DetectorRest == <<security_mode, revert_task, tasks, running, served, req>>

(* The buffers are unbounded deques; the exploration stops recording when  *)
(* they hold MaxEvents timestamps.                                         *)
record_auth_deny ==
    /\ Len(auth_denies) + Len(safety_blocks) < MaxEvents
    /\ auth_denies' = Append(auth_denies, now)
    /\ hist' = [FirstHist EXCEPT !.by = "record_auth_deny"]
    /\ UNCHANGED <<safety_blocks, last_escalation, now, DetectorRest>>

record_safety_block ==
    /\ Len(auth_denies) + Len(safety_blocks) < MaxEvents
    /\ safety_blocks' = Append(safety_blocks, now)
    /\ hist' = [FirstHist EXCEPT !.by = "record_safety_block"]
    /\ UNCHANGED <<auth_denies, last_escalation, now, DetectorRest>>

(* A call of should_escalate(); `prev' notes whether the call was made     *)
(* while a cooldown was in effect.                                         *)
ShouldEscalate ==
    LET r == should_escalate(auth_denies, safety_blocks, last_escalation, now) IN
    /\ auth_denies' = r.denies
    /\ safety_blocks' = r.blocks
    /\ last_escalation' = r.last
    /\ hist' = [FirstHist EXCEPT !.by = "should_escalate", !.ret = r.ret,
                                 !.prev = IF last_escalation # None
                                             /\ now - last_escalation < 600
                                          THEN "cooldown" ELSE ""]
    /\ UNCHANGED <<now, DetectorRest>>

Clock ==
    /\ \E d \in ClockSteps :
          /\ now + d <= MaxTime
          /\ now' = now + d
    /\ hist' = [FirstHist EXCEPT !.by = "clock"]
    /\ UNCHANGED <<auth_denies, safety_blocks, last_escalation, DetectorRest>>

InitDetector ==
    /\ security_mode = "NORMAL"
    /\ revert_task = None
    /\ tasks = <<>>
    /\ auth_denies = <<>>
    /\ safety_blocks = <<>>
    /\ last_escalation = None
    /\ now = 0
    /\ running = NoTask
    /\ served = 0
    /\ req = [p \in Procs |-> IdleRequest]
    /\ hist = FirstHist

NextDetector ==
    \/ record_auth_deny
    \/ record_safety_block
    \/ ShouldEscalate
    \/ Clock

SpecDetector == InitDetector /\ [][NextDetector]_vars

----------------------------------------------------------------------------
(* The detector constructed with other configurations: window_seconds,     *)
(* threshold and cooldown_seconds are arguments of DatadogMCPTool with     *)
(* int annotations that nothing validates.  The configuration chosen at    *)
(* construction is kept in `hist', with what the last operation was,       *)
(* whether should_escalate has returned true before (`fired'), whether an  *)
(* event was recorded since it last did (`fresh'), and whether a true was  *)
(* returned with `fired' set and `fresh' clear (`repeat').                 *)

Windows == {60, 600}
Thresholds == {0, 1, 3}
Cooldowns == {60, 600}

Configurations ==
    [window : Windows, threshold : Thresholds, cooldown : Cooldowns]

InitConfigured ==
    /\ security_mode = "NORMAL"
    /\ revert_task = None
    /\ tasks = <<>>
    /\ auth_denies = <<>>
    /\ safety_blocks = <<>>
    /\ last_escalation = None
    /\ now = 0
    /\ running = NoTask
    /\ served = 0
    /\ req = [p \in Procs |-> IdleRequest]
    /\ \E cfg \in Configurations :
          hist = [cfg |-> cfg, by |-> "__init__", ret |-> FALSE,
                  fired |-> FALSE, fresh |-> FALSE, repeat |-> FALSE]

(* The exploration stops recording when the buffers hold MaxBurst          *)
(* timestamps.                                                             *)
RecordAuthDeny ==
    /\ Len(auth_denies) + Len(safety_blocks) < MaxBurst
    /\ auth_denies' = Append(auth_denies, now)
    /\ hist' = [hist EXCEPT !.by = "record_auth_deny", !.ret = FALSE,
                            !.fresh = TRUE, !.repeat = FALSE]
    /\ UNCHANGED <<safety_blocks, last_escalation, now, DetectorRest>>

RecordSafetyBlock ==
    /\ Len(auth_denies) + Len(safety_blocks) < MaxBurst
    /\ safety_blocks' = Append(safety_blocks, now)
    /\ hist' = [hist EXCEPT !.by = "record_safety_block", !.ret = FALSE,
                            !.fresh = TRUE, !.repeat = FALSE]
    /\ UNCHANGED <<auth_denies, last_escalation, now, DetectorRest>>

ShouldEscalateConfigured ==
    LET r == should_escalate_of(hist.cfg, auth_denies, safety_blocks,
                                last_escalation, now) IN
    /\ auth_denies' = r.denies
    /\ safety_blocks' = r.blocks
    /\ last_escalation' = r.last
    /\ hist' = [hist EXCEPT !.by = "should_escalate", !.ret = r.ret,
                            !.fired = @ \/ r.ret,
                            !.fresh = @ /\ ~r.ret,
                            !.repeat = r.ret /\ hist.fired /\ ~hist.fresh]
    /\ UNCHANGED <<now, DetectorRest>>

ClockConfigured ==
    /\ \E d \in ClockSteps :
          /\ now + d <= MaxTime
          /\ now' = now + d
    /\ hist' = [hist EXCEPT !.by = "clock", !.ret = FALSE, !.repeat = FALSE]
    /\ UNCHANGED <<auth_denies, safety_blocks, last_escalation, DetectorRest>>

NextConfigured ==
    \/ RecordAuthDeny
    \/ RecordSafetyBlock
    \/ ShouldEscalateConfigured
    \/ ClockConfigured

SpecConfigured == InitConfigured /\ [][NextConfigured]_vars

----------------------------------------------------------------------------
(* The schemas constructed on their own, as test_schemas constructs them:  *)
(* one field is given a value that may lie up to MaxExcess outside its     *)
(* range (risk scores are integers, the PHI-exposure risk is in tenths and *)
(* the confidence in hundredths), the model is constructed, and a second   *)
(* model is constructed from the fields of the first.                      *)

SchemaFields == {"risk_score", "phi_exposure_risk", "confidence"}

FieldInputs(field) ==
    IF field = "phi_exposure_risk"
    THEN (0 - MaxExcess)..(10 + MaxExcess)
    ELSE (0 - MaxExcess)..(100 + MaxExcess)

(* The model constructed with v in the field and test_schemas' values in   *)
(* the other fields.                                                       *)
construct(field, v) ==
    CASE field = "risk_score" -> SafetyDecision("ALLOW", v, 5, <<>>, "test")
      [] field = "phi_exposure_risk" -> SafetyDecision("BLOCK", 80, v, <<>>, "test")
      [] field = "confidence" -> IntentDecision("TREATMENT", TRUE, v, "test")

ProgramState ==
    <<security_mode, revert_task, tasks, auth_denies, safety_blocks,
      last_escalation, now, running, served, req>>

Construct ==
    /\ hist.by = "input"
    /\ hist' = [hist EXCEPT !.by = "constructed",
                            !.value = construct(hist.field, hist.input)]
    /\ UNCHANGED ProgramState

Reconstruct ==
    /\ hist.by = "constructed"
    /\ hist' = [hist EXCEPT !.by = "reconstructed",
                            !.input = hist.value[hist.field],
                            !.value = construct(hist.field,
                                                hist.value[hist.field])]
    /\ UNCHANGED ProgramState

InitSchemas ==
    /\ security_mode = "NORMAL"
    /\ revert_task = None
    /\ tasks = <<>>
    /\ auth_denies = <<>>
    /\ safety_blocks = <<>>
    /\ last_escalation = None
    /\ now = 0
    /\ running = NoTask
    /\ served = 0
    /\ req = [p \in Procs |-> IdleRequest]
    /\ \E field \in SchemaFields : \E v \in FieldInputs(field) :
          hist = [by |-> "input", field |-> field, input |-> v,
                  value |-> NoneRec]

NextSchemas ==
    \/ Construct
    \/ Reconstruct

SpecSchemas == InitSchemas /\ [][NextSchemas]_vars

----------------------------------------------------------------------------
(* Requests served concurrently: one slot per request, each request either *)
(* refused at the deny gate (the classifier asks for patient data and the  *)
(* treats lookup returns no row) or stopped at the block gate (the         *)
(* classifier call raises, so no lookup is made, and the safety classifier *)
(* answers BLOCK).  The mode is written by the escalation check and the    *)
(* revert task only.                                                       *)

Concurrent == 1..MaxRequests

InitConcurrent ==
    /\ security_mode = "NORMAL"
    /\ revert_task = None
    /\ tasks = <<>>
    /\ auth_denies = <<>>
    /\ safety_blocks = <<>>
    /\ last_escalation = None
    /\ now = 0
    /\ running = NoTask
    /\ served = 0
    /\ req = [p \in Concurrent |-> IdleRequest]
    /\ hist = NoHist

NextConcurrent ==
    \/ \E p \in Concurrent : Start(p) /\ req'[p].message = msg_plain
    \/ \E p \in Concurrent :
          Classify(p) /\ req'[p].intent_out \in {"raise", "parsed"}
    \/ \E p \in Concurrent : Check(p)
    \/ \E p \in Concurrent : TreatsReturn(p) /\ req'[p].treats = "empty"
    \/ \E p \in Concurrent : DenyGate(p)
    \/ \E p \in Concurrent : Scan(p) /\ req'[p].safety_out = "fenced_parsed"
    \/ \E p \in Concurrent : BlockGate(p)
    \/ \E p \in Concurrent : Save(p) /\ req'[p].audit_ok
    \/ \E p \in Concurrent : Return(p)
    \/ \E i \in 1..Len(tasks) : RevertFire(i)
    \/ Tick

SpecConcurrent == InitConcurrent /\ [][NextConcurrent]_vars

----------------------------------------------------------------------------
(* The mode lock.  The four coroutines that take _security_mode_lock, each *)
(* followed through its `async with': the acquire (asyncio.Lock.acquire    *)
(* returns without yielding when the lock is free, and parks the caller    *)
(* when it is not), the body, and the release.  A coroutine that has the   *)
(* loop keeps it until it parks or returns.  Here hist holds where each    *)
(* caller stands (pc), the lock's flag, the argument of set_mode, the      *)
(* revert task that woke, what get_mode read and what it returned, and the *)
(* function that last assigned the mode (writer).                          *)

Callers == 1..4
CallerName == <<"get_mode", "set_mode", "_check_and_escalate", "_schedule_revert">>

InitLock ==
    /\ security_mode = "NORMAL"
    /\ revert_task = None
    /\ tasks = <<>>
    /\ auth_denies = <<>>
    /\ safety_blocks = <<>>
    /\ last_escalation = None
    /\ now = 0
    /\ running = NoTask
    /\ served = 0
    /\ req = [p \in Procs |-> IdleRequest]
    /\ hist = [pc |-> [c \in Callers |-> "out"], locked |-> FALSE,
               arg |-> "", task |-> 0, got |-> "", returned |-> "",
               writer |-> "init"]

LockRest == <<auth_denies, safety_blocks, last_escalation, now, served, req>>

(* `async with _security_mode_lock:' is entered.  get_mode and set_mode    *)
(* are called at any time; _check_and_escalate comes here when             *)
(* should_escalate has answered true (at most MaxTasks revert tasks are    *)
(* created); _schedule_revert comes here when its sleep is over.           *)
Acquire(c) ==
    /\ running = NoTask
    /\ hist.pc[c] = "out"
    /\ CallerName[c] = "_check_and_escalate" => Len(tasks) < MaxTasks
    /\ \E m \in ModeInputs, i \in 0..Len(tasks) :
          /\ CallerName[c] = "set_mode" \/ m = "NORMAL"
          /\ IF CallerName[c] = "_schedule_revert"
             THEN i > 0 /\ tasks[i].state = "sleeping" /\ now >= tasks[i].wake
             ELSE i = 0
          /\ IF hist.locked
             THEN /\ hist' = [hist EXCEPT !.pc[c] = "waiting"]
                  /\ running' = NoTask
             ELSE /\ hist' = [hist EXCEPT !.pc[c] = "inside", !.locked = TRUE,
                                          !.arg = IF CallerName[c] = "set_mode"
                                                  THEN m ELSE @,
                                          !.task = IF i > 0 THEN i ELSE @]
                  /\ running' = c
    /\ UNCHANGED <<security_mode, revert_task, tasks, LockRest>>

(* Whether the body of caller c assigns _security_mode.                    *)
mode_written(c) ==
    CASE CallerName[c] = "get_mode" -> FALSE
      [] CallerName[c] = "set_mode" -> TRUE
      [] CallerName[c] = "_check_and_escalate" -> escalates(TRUE, security_mode)
      [] CallerName[c] = "_schedule_revert" -> revert_writes(security_mode)

(* The body under the lock.                                                *)
Body(c) ==
    /\ running = c
    /\ hist.pc[c] = "inside"
    /\ hist' = [hist EXCEPT !.pc[c] = "leaving",
                            !.got = IF CallerName[c] = "get_mode"
                                    THEN get_mode ELSE @,
                            !.writer = IF mode_written(c)
                                       THEN CallerName[c] ELSE @]
    /\ CASE CallerName[c] = "get_mode" ->
               UNCHANGED <<security_mode, revert_task, tasks>>
         [] CallerName[c] = "set_mode" -> set_mode(hist.arg)
         [] CallerName[c] = "_check_and_escalate" ->
               IF escalates(TRUE, security_mode)
               THEN escalation_write
               ELSE UNCHANGED <<security_mode, revert_task, tasks>>
         [] CallerName[c] = "_schedule_revert" ->
               /\ security_mode' = IF revert_writes(security_mode)
                                   THEN "NORMAL" ELSE security_mode
               /\ UNCHANGED <<revert_task, tasks>>
    /\ UNCHANGED <<running, LockRest>>

(* The lock is released and the coroutine returns; get_mode returns what   *)
(* it read, and the revert task is done.                                   *)
Release(c) ==
    /\ running = c
    /\ hist.pc[c] = "leaving"
    /\ hist' = [hist EXCEPT !.pc[c] = "out", !.locked = FALSE,
                            !.returned = IF CallerName[c] = "get_mode"
                                         THEN hist.got ELSE @]
    /\ tasks' = IF CallerName[c] = "_schedule_revert"
                THEN [tasks EXCEPT ![hist.task].state = "done"]
                ELSE tasks
    /\ running' = NoTask
    /\ UNCHANGED <<security_mode, revert_task, LockRest>>

NextLock ==
    \/ \E c \in Callers : Acquire(c)
    \/ \E c \in Callers : Body(c)
    \/ \E c \in Callers : Release(c)
    \/ Tick

SpecLock == InitLock /\ [][NextLock]_vars

----------------------------------------------------------------------------
(* Properties.                                                             *)

(* The messages that contain "emergency" or "unconscious" in some letter   *)
(* case, and those that contain a deny-list keyword in some letter case.   *)
EmergencyMessages == {msg_EMERGENCY, msg_Unconscious_DoB}
KeywordMessages == {msg_Home_Address, msg_Unconscious_DoB}

(* C1: a request that reads LOCKDOWN at pipeline entry is refused with     *)
(* blocked=true, a reason naming LOCKDOWN and an empty final_text; it only *)
(* ever waits for the audit append and returns, and no intent, lookup,     *)
(* safety or generator call is made for it.                                *)
Thm_C1_LockdownRefusesWithoutCalls ==
    \A p \in Procs :
        (req[p].pc # "idle" /\ req[p].security_mode = "LOCKDOWN") =>
            /\ req[p].pc \in {"save", "done"}
            /\ req[p].result.kind = "result"
            /\ req[p].result.blocked
            /\ req[p].result.reason[1] = "System is in LOCKDOWN mode"
            /\ req[p].result.final_text = ""
            /\ req[p].n_intent = 0
            /\ req[p].n_treats = 0
            /\ req[p].n_role = 0
            /\ req[p].n_safety = 0
            /\ req[p].n_generate = 0

Wit_C1_LockdownReturned ==
    \E p \in Procs :
        /\ req[p].pc = "done"
        /\ req[p].security_mode = "LOCKDOWN"
        /\ req[p].result.blocked

(* C2: whatever the collaborators do, run_pipeline returns an outcome and  *)
(* no exception leaves it.                                                 *)
Cex_C2_NeverRaises ==
    \A p \in Procs : req[p].pc # "raised"

(* C3: a request whose authorization result is neither authorized nor      *)
(* break-glass is refused with blocked=true, an empty final_text and a     *)
(* reason carrying the authorization reason code, and neither the safety   *)
(* classifier nor the generator is called for it.                          *)
Thm_C3_DeniedIsRefusedBeforeSafety ==
    \A p \in Procs :
        ( /\ req[p].policy.kind = "PolicyDecision"
          /\ ~req[p].policy.authorized
          /\ ~req[p].policy.break_glass
          /\ req[p].pc # "deny_gate" ) =>
            /\ req[p].pc \in {"save", "done"}
            /\ req[p].result.kind = "result"
            /\ req[p].result.blocked
            /\ req[p].result.final_text = ""
            /\ req[p].result.reason =
                   <<"Authorization denied: ", <<req[p].policy.reason_code>>>>
            /\ req[p].safety.kind = "None"
            /\ req[p].n_safety = 0
            /\ req[p].n_generate = 0

Wit_C3_DeniedReturned ==
    \E p \in Procs :
        /\ req[p].pc = "done"
        /\ req[p].policy.kind = "PolicyDecision"
        /\ ~req[p].policy.authorized
        /\ ~req[p].policy.break_glass
        /\ req[p].result.blocked

(* C4: a request whose safety action is BLOCK is returned an outcome with  *)
(* blocked=true, a reason starting with "Safety block" and an empty        *)
(* final_text, and the generator is never called for it.                   *)
Cex_C4_SafetyBlockReturnsRefusal ==
    \A p \in Procs :
        ( /\ req[p].safety.kind = "SafetyDecision"
          /\ req[p].safety.action = "BLOCK"
          /\ req[p].pc # "block_gate" ) =>
            /\ req[p].pc \in {"save", "done"}
            /\ req[p].result.kind = "result"
            /\ req[p].result.blocked
            /\ req[p].result.reason[1] = "Safety block: "
            /\ req[p].result.final_text = ""
            /\ req[p].n_generate = 0

(* C5: when the treats lookup raises, the authorization decision is made   *)
(* (nothing is raised) and it is authorized=false, scope NONE,             *)
(* break_glass=false, whatever the message says; the ER role is not even   *)
(* asked for.                                                              *)
Thm_C5_LookupFailureFailsClosed ==
    \A p \in Procs :
        req[p].treats = "raise" =>
            /\ req[p].pc # "raised"
            /\ req[p].policy.kind = "PolicyDecision"
            /\ ~req[p].policy.authorized
            /\ req[p].policy.scope = "NONE"
            /\ ~req[p].policy.break_glass
            /\ req[p].n_role = 0

Wit_C5_LookupRaisedOnEmergency ==
    \E p \in Procs :
        /\ req[p].treats = "raise"
        /\ req[p].message \in EmergencyMessages
        /\ req[p].pc = "deny_gate"
        /\ ~req[p].policy.authorized

(* C6: for a message with an emergency term in any letter case whose       *)
(* treats lookup returned a row, the ER role is looked up, and when that   *)
(* lookup returns true the decision is authorized=true, break_glass=true,  *)
(* scope LIMITED_ALLERGIES_MEDS, whether the row reports the relationship  *)
(* as absent or as present.                                                *)
Thm_C6_BreakGlassOverrides ==
    \A p \in Procs :
        ( /\ req[p].message \in EmergencyMessages
          /\ req[p].treats \in {"absent", "present"} ) =>
            /\ req[p].n_role = 1
            /\ req[p].role = "true" =>
                  /\ req[p].policy.kind = "PolicyDecision"
                  /\ req[p].policy.authorized
                  /\ req[p].policy.break_glass
                  /\ req[p].policy.scope = "LIMITED_ALLERGIES_MEDS"

Wit_C6_TreatingClinicianGetsLimited ==
    \E p \in Procs :
        /\ req[p].message = msg_EMERGENCY
        /\ req[p].treats = "present"
        /\ req[p].role = "true"
        /\ req[p].policy.kind = "PolicyDecision"
        /\ req[p].policy.scope = "LIMITED_ALLERGIES_MEDS"

(* C7: break-glass is granted only on an emergency term together with a    *)
(* role lookup that returned true; when the role lookup returns false, no  *)
(* row, or raises, the decision is the relationship-based one (authorized  *)
(* with FULL when the relationship is present, else unauthorized with      *)
(* NONE) without break-glass; without an emergency term the role is never  *)
(* looked up.                                                              *)
Thm_C7_BreakGlassNeedsTermAndRole ==
    \A p \in Procs :
        /\ req[p].message \notin EmergencyMessages => req[p].n_role = 0
        /\ req[p].policy.kind = "PolicyDecision" =>
              /\ req[p].policy.break_glass =>
                    (req[p].message \in EmergencyMessages /\ req[p].role = "true")
              /\ req[p].role \in {"false", "empty", "raise"} =>
                    /\ ~req[p].policy.break_glass
                    /\ IF req[p].treats = "present"
                       THEN req[p].policy.authorized /\ req[p].policy.scope = "FULL"
                       ELSE ~req[p].policy.authorized /\ req[p].policy.scope = "NONE"

Wit_C7_RoleLookupRaised ==
    \E p \in Procs :
        /\ req[p].message \in EmergencyMessages
        /\ req[p].role = "raise"
        /\ req[p].treats = "present"
        /\ req[p].policy.kind = "PolicyDecision"
        /\ req[p].policy.scope = "FULL"

(* C8: for an intent with needs_patient_context=false the decision is      *)
(* authorized=true, scope NONE, break_glass=false with the reason          *)
(* no_patient_context_needed, and neither the treats nor the role lookup   *)
(* is made.                                                                *)
Thm_C8_NoContextShortCircuit ==
    \A p \in Procs :
        ( /\ req[p].intent.kind = "IntentDecision"
          /\ ~req[p].intent.needs_patient_context
          /\ req[p].pc # "check" ) =>
            /\ req[p].policy.kind = "PolicyDecision"
            /\ req[p].policy.authorized
            /\ req[p].policy.scope = "NONE"
            /\ ~req[p].policy.break_glass
            /\ req[p].policy.reason_code = "no_patient_context_needed"
            /\ req[p].n_treats = 0
            /\ req[p].n_role = 0

Wit_C8_NoContextDecided ==
    \E p \in Procs :
        /\ req[p].pc = "deny_gate"
        /\ req[p].intent.intent = "ADMIN"
        /\ ~req[p].intent.needs_patient_context
        /\ req[p].policy.reason_code = "no_patient_context_needed"

(* C9: when the safety classifier call raises or returns text that cannot  *)
(* be parsed as a decision, the scan returns BLOCK with risk score 100.    *)
Cex_C9_ClassifierFailureBlocks ==
    \A p \in Procs :
        req[p].safety_out \in {"raise", "unparseable", "fenced_error"} =>
            /\ req[p].safety.action = "BLOCK"
            /\ req[p].safety.risk_score = 100

(* C10: when the request carries STRICT_MODE and its message contains a    *)
(* deny-list keyword in any letter case, the scan returns BLOCK with risk  *)
(* 100 and PHI risk 1.0 and makes no classifier call; when the request     *)
(* carries another mode, the keyword filter is not applied and the         *)
(* classifier is called exactly once.                                      *)
Thm_C10_StrictKeywordPreFilter ==
    \A p \in Procs :
        req[p].safety.kind = "SafetyDecision" =>
            /\ (req[p].security_mode = "STRICT_MODE"
                    /\ req[p].message \in KeywordMessages) =>
                  /\ req[p].safety.action = "BLOCK"
                  /\ req[p].safety.risk_score = 100
                  /\ req[p].safety.phi_exposure_risk = 10
                  /\ req[p].n_safety = 0
            /\ req[p].security_mode # "STRICT_MODE" =>
                  /\ req[p].n_safety = 1
                  /\ req[p].safety_out # "not_called"

Wit_C10_MixedCaseKeywordBlocked ==
    \E p \in Procs :
        /\ req[p].security_mode = "STRICT_MODE"
        /\ req[p].message = msg_Home_Address
        /\ req[p].safety.kind = "SafetyDecision"
        /\ req[p].safety.action = "BLOCK"
        /\ req[p].n_safety = 0

----------------------------------------------------------------------------
(* The mode controller.                                                    *)

(* C11: right after a direct set_mode(x), get_mode returns x when x is one *)
(* of NORMAL, STRICT_MODE, LOCKDOWN and NORMAL for every other string,     *)
(* whatever the mode was before the call.                                  *)
Thm_C11_SetModeCoercesInvalid ==
    hist.by = "set_mode" =>
        get_mode = (IF hist.arg \in {"NORMAL", "STRICT_MODE", "LOCKDOWN"}
                    THEN hist.arg ELSE "NORMAL")

(* set_mode("INVALID") has just been called in LOCKDOWN.                   *)
Wit_C11_InvalidFromLockdown ==
    /\ hist.by = "set_mode"
    /\ hist.arg = "INVALID"
    /\ hist.prev = "LOCKDOWN"
    /\ get_mode = "NORMAL"

(* C12: once set_mode has written the mode no revert task is left asleep,  *)
(* and a mode written by set_mode is never overwritten by a revert task:   *)
(* the next writer of the mode is set_mode again or a new escalation.      *)
Thm_C12_ManualCancelsRevert ==
    [][/\ hist.writer = "set_mode" => hist'.writer # "_schedule_revert"
       /\ hist'.writer = "set_mode" =>
              \A i \in 1..Len(tasks') : tasks'[i].state # "sleeping"]_vars

(* The operator chose STRICT_MODE after an automatic escalation and the    *)
(* time at which the cancelled revert task would have fired has come.      *)
Wit_C12_ManualStrictOutlivesTimer ==
    /\ hist.writer = "set_mode"
    /\ security_mode = "STRICT_MODE"
    /\ \E i \in 1..Len(tasks) :
          tasks[i].state = "cancelled" /\ now >= tasks[i].wake

(* C13 as stated: after any call that sets the mode, direct or through the *)
(* endpoint, with the spelling strict_mode or Lockdown, the mode is the    *)
(* upper-case name and no revert task is asleep.                           *)
Cex_C13_AnySetNormalizesCase ==
    hist.by \in {"set_mode", "set_mode_endpoint"} =>
        /\ hist.arg = "strict_mode" => get_mode = "STRICT_MODE"
        /\ hist.arg = "Lockdown" => get_mode = "LOCKDOWN"
        /\ hist.arg \in {"strict_mode", "Lockdown"} =>
               \A i \in 1..Len(tasks) : tasks[i].state # "sleeping"

(* C13 amended: the mode endpoint answers the spellings strict_mode and    *)
(* Lockdown with status 200, makes STRICT_MODE and LOCKDOWN the mode and   *)
(* leaves no revert task asleep; set_mode called directly with such a      *)
(* spelling writes NORMAL, and it too leaves no revert task asleep.        *)
Thm_C13_EndpointNormalizesCase ==
    /\ hist.by = "set_mode_endpoint" /\ hist.arg \in {"strict_mode", "Lockdown"} =>
          /\ hist.status = 200
          /\ get_mode = (IF hist.arg = "strict_mode" THEN "STRICT_MODE"
                         ELSE "LOCKDOWN")
          /\ \A i \in 1..Len(tasks) : tasks[i].state # "sleeping"
    /\ hist.by = "set_mode" /\ hist.arg \in {"strict_mode", "Lockdown"} =>
          /\ get_mode = "NORMAL"
          /\ \A i \in 1..Len(tasks) : tasks[i].state # "sleeping"

(* The endpoint was sent strict_mode while the revert task of an automatic *)
(* escalation was pending, and cancelled it.                               *)
Wit_C13_EndpointCancelledRevert ==
    /\ hist.by = "set_mode_endpoint"
    /\ hist.arg = "strict_mode"
    /\ hist.cancelled
    /\ get_mode = "STRICT_MODE"
    /\ \E i \in 1..Len(tasks) : tasks[i].state = "cancelled"

(* A call of set_mode, direct or through the endpoint.                     *)
ManualStep == \E m \in ModeInputs : SetMode(m) \/ set_mode_endpoint(m)

(* C14: a step that changes the mode is a set_mode, or the escalation      *)
(* NORMAL -> STRICT_MODE that schedules the revert task, or the revert     *)
(* task's STRICT_MODE -> NORMAL; should_escalate returning true in         *)
(* STRICT_MODE or LOCKDOWN changes neither the mode nor the tasks; so      *)
(* LOCKDOWN is entered and left by set_mode only.                          *)
Thm_C14_AutomaticTransitions ==
    [][/\ security_mode' # security_mode =>
            \/ ManualStep
            \/ /\ security_mode = "NORMAL"
               /\ security_mode' = "STRICT_MODE"
               /\ last_escalation' = now
               /\ revert_task' = Len(tasks) + 1
               /\ Len(tasks') = Len(tasks) + 1
               /\ tasks'[Len(tasks')] =
                      [state |-> "sleeping", wake |-> now + 600]
            \/ /\ security_mode = "STRICT_MODE"
               /\ security_mode' = "NORMAL"
               /\ \E i \in 1..Len(tasks) : RevertFire(i)
       /\ last_escalation' # last_escalation /\ security_mode # "NORMAL" =>
            /\ security_mode' = security_mode
            /\ tasks' = tasks
            /\ revert_task' = revert_task
       /\ (security_mode = "LOCKDOWN") # (security_mode' = "LOCKDOWN") =>
            ManualStep]_vars

(* should_escalate has just returned true to an escalation check made in   *)
(* LOCKDOWN: the mode is still LOCKDOWN and no task was ever scheduled.    *)
Wit_C14_EscalationCheckInLockdown ==
    /\ hist.by = "_check_and_escalate"
    /\ hist.ret
    /\ hist.prev = "LOCKDOWN"
    /\ last_escalation = now
    /\ security_mode = "LOCKDOWN"
    /\ tasks = <<>>

(* C15: from a state whose mode was written by an automatic escalation,    *)
(* either set_mode is called or the revert task fires and leaves the mode  *)
(* NORMAL; and the revert task that has just fired has written NORMAL if   *)
(* it found STRICT_MODE and has left any other mode as it found it.        *)
Thm_C15_RevertEventuallyFires ==
    /\ (hist.writer = "_check_and_escalate" /\ security_mode = "STRICT_MODE")
          ~> \/ hist.writer = "set_mode"
             \/ hist.writer = "_schedule_revert" /\ security_mode = "NORMAL"
    /\ [](hist.by = "_schedule_revert" =>
            security_mode = (IF hist.prev = "STRICT_MODE" THEN "NORMAL"
                             ELSE hist.prev))

(* The revert task of an automatic escalation has fired, no set_mode came  *)
(* in between, and the mode is NORMAL again.                               *)
Wit_C15_RevertedToNormal ==
    /\ hist.by = "_schedule_revert"
    /\ hist.writer = "_schedule_revert"
    /\ hist.prev = "STRICT_MODE"
    /\ security_mode = "NORMAL"
    /\ \E i \in 1..Len(tasks) : tasks[i].state = "done"

----------------------------------------------------------------------------
(* The escalation detector.                                                *)

(* The number of timestamps of buf that are at most 60 seconds old.        *)
Within(buf) == Cardinality({i \in 1..Len(buf) : now - buf[i] <= 60})

(* A cooldown is in effect: the last true answer is less than 600 seconds  *)
(* old.                                                                    *)
CooldownInEffect == last_escalation # None /\ now - last_escalation < 600

(* C16: a call of should_escalate made with no cooldown in effect returns  *)
(* true exactly when at least 3 denial timestamps or at least 3 block      *)
(* timestamps are at most 60 seconds old, and a true answer stamps the     *)
(* time of the call; the call that follows a true answer at once returns   *)
(* false.                                                                  *)
Thm_C16_EscalatesAtThreshold ==
    [][ShouldEscalate =>
         /\ ~CooldownInEffect =>
               /\ hist'.ret <=> (Within(auth_denies) >= 3
                                  \/ Within(safety_blocks) >= 3)
               /\ hist'.ret => last_escalation' = now
         /\ hist.by = "should_escalate" /\ hist.ret => ~hist'.ret]_vars

(* should_escalate has just returned true on exactly 3 denials, the oldest *)
(* of them exactly 60 seconds old.                                         *)
Wit_C16_ThirdDenialEscalates ==
    /\ hist.by = "should_escalate"
    /\ hist.ret
    /\ hist.prev = ""
    /\ Len(auth_denies) = 3
    /\ auth_denies[1] = now - 60
    /\ safety_blocks = <<>>
    /\ last_escalation = now

(* C17: a call of should_escalate made while a cooldown is in effect       *)
(* returns false and leaves both buffers and the last-escalation stamp as  *)
(* they were.                                                              *)
Thm_C17_CooldownCallChangesNothing ==
    [][ShouldEscalate /\ CooldownInEffect =>
         /\ ~hist'.ret
         /\ auth_denies' = auth_denies
         /\ safety_blocks' = safety_blocks
         /\ last_escalation' = last_escalation]_vars

(* A call made during the cooldown has just returned false although 4      *)
(* denials are at most 60 seconds old, the last of them recorded after the *)
(* escalation.                                                             *)
Wit_C17_CooldownSuppressedBurst ==
    /\ hist.by = "should_escalate"
    /\ hist.prev = "cooldown"
    /\ ~hist.ret
    /\ Len(auth_denies) = 4
    /\ Within(auth_denies) = 4
    /\ auth_denies[4] > last_escalation

----------------------------------------------------------------------------
(* End-to-end outcomes.                                                    *)

(* C18: a request authorized with scope FULL, whose safety action is ALLOW *)
(* and whose generator call succeeded, gets blocked=false, the generated   *)
(* text as final_text, scope FULL, the classified intent, and the          *)
(* generator's token counts (50 and 20) and its cost, which is not null.   *)
Thm_C18_SuccessPassesThrough ==
    \A p \in Procs :
        ( /\ req[p].pc \in {"save", "done"}
          /\ req[p].policy.kind = "PolicyDecision"
          /\ req[p].policy.authorized
          /\ req[p].policy.scope = "FULL"
          /\ req[p].safety.kind = "SafetyDecision"
          /\ req[p].safety.action = "ALLOW"
          /\ req[p].response.kind = "ResponseDecision"
          /\ ~req[p].response.blocked ) =>
            /\ req[p].result.kind = "result"
            /\ ~req[p].result.blocked
            /\ req[p].result.final_text = "answer"
            /\ req[p].result.final_text = req[p].response.final_text
            /\ req[p].result.scope = "FULL"
            /\ req[p].result.intent = req[p].intent.intent
            /\ req[p].result.tokens_in = 50
            /\ req[p].result.tokens_out = 20
            /\ req[p].result.cost_usd = req[p].response.cost_usd
            /\ req[p].result.cost_usd # None
            /\ req[p].result.cost_usd = 72

(* A treating clinician's request has been answered.                       *)
Wit_C18_FullScopeAnswered ==
    \E p \in Procs :
        /\ req[p].pc = "done"
        /\ req[p].policy.kind = "PolicyDecision"
        /\ req[p].policy.scope = "FULL"
        /\ req[p].safety.action = "ALLOW"
        /\ req[p].result.kind = "result"
        /\ ~req[p].result.blocked
        /\ req[p].result.final_text = "answer"
        /\ req[p].result.intent = "TREATMENT"

(* The characters of the reason codes of the authorization decision and of *)
(* the fixed text the deny gate puts before the code.                      *)
CodeChars ==
    [c \in {"no_relationship_found", "no_treats_relationship",
            "neo4j_unavailable", "Authorization denied: "} |->
        CASE c = "no_relationship_found" ->
                <<"n","o","_","r","e","l","a","t","i","o","n","s","h","i","p",
                  "_","f","o","u","n","d">>
          [] c = "no_treats_relationship" ->
                <<"n","o","_","t","r","e","a","t","s","_","r","e","l","a","t",
                  "i","o","n","s","h","i","p">>
          [] c = "neo4j_unavailable" ->
                <<"n","e","o","4","j","_","u","n","a","v","a","i","l","a","b",
                  "l","e">>
          [] c = "Authorization denied: " ->
                <<"A","u","t","h","o","r","i","z","a","t","i","o","n"," ",
                  "d","e","n","i","e","d",":"," ">>]

(* `code in reason' for the reason of a denial.                            *)
ReasonContains(reason, code) ==
    Contains(CodeChars[reason[1]] \o CodeChars[reason[2][1]], CodeChars[code])

(* A finished request that needed patient data, found no treats            *)
(* relationship and carried no emergency term.                             *)
NoRelationship(p) ==
    /\ req[p].pc \in {"save", "done"}
    /\ req[p].intent.kind = "IntentDecision"
    /\ req[p].intent.needs_patient_context
    /\ req[p].treats \in {"empty", "absent"}
    /\ req[p].message \notin EmergencyMessages

(* C19 as stated: such a request is refused with scope NONE and a reason   *)
(* that contains no_relationship_found, whether the lookup returned no row *)
(* or a row without the relationship.                                      *)
Cex_C19_ReasonAlwaysNoRelationshipFound ==
    \A p \in Procs :
        NoRelationship(p) =>
            /\ req[p].result.blocked
            /\ req[p].result.policy_decision.scope = "NONE"
            /\ ReasonContains(req[p].result.reason, "no_relationship_found")

(* C19 amended: such a request is refused with scope NONE; the reason      *)
(* contains no_relationship_found when the lookup returned no row, and     *)
(* no_treats_relationship (and not no_relationship_found) when it returned *)
(* a row without the relationship.                                         *)
Thm_C19_ReasonNamesTheLookupResult ==
    \A p \in Procs :
        NoRelationship(p) =>
            /\ req[p].result.blocked
            /\ req[p].result.final_text = ""
            /\ "policy_decision" \in DOMAIN req[p].result
            /\ req[p].result.policy_decision.scope = "NONE"
            /\ req[p].treats = "empty" =>
                  ReasonContains(req[p].result.reason, "no_relationship_found")
            /\ req[p].treats = "absent" =>
                  /\ ReasonContains(req[p].result.reason, "no_treats_relationship")
                  /\ ~ReasonContains(req[p].result.reason, "no_relationship_found")

(* A request without an emergency term was refused on a row that reports   *)
(* no treats relationship.                                                 *)
Wit_C19_RowWithoutRelationship ==
    \E p \in Procs :
        /\ NoRelationship(p)
        /\ req[p].pc = "done"
        /\ req[p].treats = "absent"
        /\ req[p].result.blocked

(* A request that has ended at one of the five gates: refused in LOCKDOWN, *)
(* refused at the deny gate, stopped at the block gate, failed in          *)
(* generation, or answered.                                                *)
Ended(p) ==
    /\ req[p].pc \in {"done", "raised"}
    /\ \/ req[p].security_mode = "LOCKDOWN"
       \/ req[p].policy.kind = "PolicyDecision" /\ denied(req[p].policy)
       \/ req[p].safety.kind = "SafetyDecision" /\ req[p].safety.action = "BLOCK"
       \/ req[p].response.kind = "ResponseDecision"

AuditOncePerReturnedOutcome ==
    \A p \in Procs :
        /\ req[p].n_audit <= 1
        /\ req[p].n_audit = 1 => req[p].result.kind = "result"
        /\ req[p].pc = "done" =>
              req[p].n_audit = 1 /\ req[p].result.kind = "result"
        /\ req[p].pc = "raised" => req[p].n_audit = 0

----------------------------------------------------------------------------
(* The block gate and its alert.                                           *)

(* C21: a request whose safety action is BLOCK gets past the alert call    *)
(* whether that call succeeds or fails: no exception of the call leaves    *)
(* run_pipeline, the block event is recorded, the escalation check and the *)
(* alert call are behind it and the safety-block outcome is built.         *)
Cex_C21_AlertFailureIsDiscarded ==
    \A p \in Procs :
        ( /\ req[p].safety.kind = "SafetyDecision"
          /\ req[p].safety.action = "BLOCK"
          /\ req[p].pc # "block_gate" ) =>
            /\ req[p].exc = ""
            /\ req[p].n_alert = 1
            /\ req[p].result.kind = "result"
            /\ req[p].result.blocked
            /\ req[p].result.safety_decision.action = "BLOCK"

----------------------------------------------------------------------------
(* The schemas.                                                            *)

(* C22: a constructed safety result has the risk score min(100, max(0, r)) *)
(* of its input r; the PHI-exposure risk and the confidence are brought    *)
(* into [0, 1] in the same way (10 tenths, 100 hundredths); and a model    *)
(* constructed from an already clamped value has that value.               *)
Thm_C22_FieldsAreClamped ==
    hist.by \in {"constructed", "reconstructed"} =>
        LET top == IF hist.field = "phi_exposure_risk" THEN 10 ELSE 100
            out == hist.value[hist.field]
        IN /\ hist.input > top => out = top
           /\ hist.input < 0 => out = 0
           /\ hist.input \in 0..top => out = hist.input
           /\ hist.by = "reconstructed" => out = hist.input

(* A safety result has been constructed with the risk score 150.           *)
Wit_C22_RiskScore150 ==
    /\ hist.by = "constructed"
    /\ hist.field = "risk_score"
    /\ hist.input = 150
    /\ hist.value.risk_score = 100

----------------------------------------------------------------------------
(* The authorization decision.                                             *)

----------------------------------------------------------------------------
(* The mode endpoint.                                                      *)

(* C24: a request to the mode endpoint with a value that is no mode name   *)
(* in any letter case is answered with status 400 and leaves the mode, the *)
(* revert tasks and the reference to the pending one as they were.         *)
Thm_C24_EndpointRejectsInvalid ==
    [][\A m \in ModeInputs \ {"NORMAL", "STRICT_MODE", "LOCKDOWN",
                                "strict_mode", "Lockdown"} :
          set_mode_endpoint(m) =>
              /\ hist'.status = 400
              /\ security_mode' = security_mode
              /\ tasks' = tasks
              /\ revert_task' = revert_task]_vars

(* The endpoint has just answered INVALID with 400 while the revert task   *)
(* of an automatic escalation was pending, and the task still is.          *)
Wit_C24_RejectedWhileRevertPending ==
    /\ hist.by = "set_mode_endpoint"
    /\ hist.arg = "INVALID"
    /\ hist.status = 400
    /\ hist.writer = "_check_and_escalate"
    /\ security_mode = "STRICT_MODE"
    /\ revert_task # None
    /\ tasks[revert_task].state = "sleeping"

----------------------------------------------------------------------------
(* The generation failure.                                                 *)

(* The generator of request p has come back with its failure decision.     *)
GeneratorFailed(p) ==
    /\ req[p].pc \in {"save", "done"}
    /\ req[p].response.kind = "ResponseDecision"
    /\ req[p].response.blocked

(* C25: when the generator fails, its decision is blocked with empty text  *)
(* and null token counts and cost, and the outcome of run_pipeline is      *)
(* blocked with empty final_text, a reason that starts with `Response      *)
(* generation failed' and carries the generator's code, and no token or    *)
(* cost entry.                                                             *)
Thm_C25_GenerationFailureOutcome ==
    \A p \in Procs :
        GeneratorFailed(p) =>
            /\ req[p].response.final_text = ""
            /\ req[p].response.tokens_in = None
            /\ req[p].response.tokens_out = None
            /\ req[p].response.cost_usd = None
            /\ req[p].result.blocked
            /\ req[p].result.final_text = ""
            /\ req[p].result.reason =
                  Reason("Response generation failed: ", <<"bedrock_error">>)
            /\ DOMAIN req[p].result \cap {"tokens_in", "tokens_out", "cost_usd"} = {}

(* A request that passed both gates under full scope has returned the      *)
(* generation-failure outcome after its Bedrock call raised.               *)
Wit_C25_GeneratorRaisedUnderFullScope ==
    \E p \in Procs :
        /\ GeneratorFailed(p)
        /\ req[p].pc = "done"
        /\ req[p].policy.scope = "FULL"
        /\ req[p].n_generate = 1

----------------------------------------------------------------------------
(* The classifier failure.                                                 *)

(* The classifier call of request p raised or returned text that does not  *)
(* parse.                                                                  *)
ClassifierFailed(p) ==
    req[p].intent_out \in {"raise", "unparseable", "fenced_error"}

(* C26: after a failed classifier call the request carries the fallback    *)
(* intent (UNKNOWN, no patient data needed, confidence 0) and goes on: no  *)
(* relationship or role lookup is made for it, its authorization decision  *)
(* is authorized with scope NONE, and no denial event is recorded for it.  *)
Thm_C26_ClassifierFailureFallsBack ==
    \A p \in Procs :
        ClassifierFailed(p) =>
            /\ req[p].intent.intent = "UNKNOWN"
            /\ ~req[p].intent.needs_patient_context
            /\ req[p].intent.confidence = 0
            /\ req[p].n_treats = 0
            /\ req[p].n_role = 0
            /\ req[p].n_deny = 0
            /\ req[p].pc \notin {"await_treats", "await_role"}
            /\ req[p].pc # "check" =>
                  /\ req[p].policy.authorized
                  /\ req[p].policy.scope = "NONE"
                  /\ req[p].policy.reason_code = "no_patient_context_needed"
            /\ req[p].result.kind = "result" =>
                  "policy_decision" \notin DOMAIN req[p].result

(* A request whose classifier call raised has been answered with generated *)
(* text, and the detector holds no denial event.                           *)
Wit_C26_AnsweredAfterClassifierRaised ==
    \E p \in Procs :
        /\ req[p].intent_out = "raise"
        /\ req[p].pc = "done"
        /\ ~req[p].result.blocked
        /\ req[p].policy.scope = "NONE"
        /\ auth_denies = <<>>

----------------------------------------------------------------------------
(* The gates and the escalation check.                                     *)

(* The outcome of request p is the refusal of the deny gate.               *)
DeniedOutcome(r) ==
    r.result.kind = "result" /\ "policy_decision" \in DOMAIN r.result

Cex_C28_BlockRecordedThenChecked ==
    \A p \in Procs :
        (/\ req[p].safety.kind = "SafetyDecision"
         /\ req[p].safety.action = "BLOCK"
         /\ req[p].pc # "block_gate") =>
            /\ req[p].n_block = 1
            /\ req[p].n_check = 1
            /\ req[p].pc \in {"save", "done"}

(* Three denial events within 60 seconds always find the mode escalated.   *)
DenialBurstNeverMissed ==
    Within(auth_denies) >= 3 =>
        security_mode = "STRICT_MODE" /\ last_escalation # None

(* C29 as stated: when requests served concurrently, starting in NORMAL    *)
(* with no cooldown in effect, have together recorded three denial events  *)
(* or three block events within 60 seconds, one of their escalation checks *)
(* has answered true and the mode is STRICT_MODE.                          *)
Cex_C29_BurstNeverMissed ==
    (Within(auth_denies) >= 3 \/ Within(safety_blocks) >= 3) =>
        security_mode = "STRICT_MODE" /\ last_escalation # None

----------------------------------------------------------------------------
(* The two kinds of event.                                                 *)

(* C30: a call of should_escalate returns false when fewer than 3 denials  *)
(* and fewer than 3 blocks are at most 60 seconds old, whatever their sum; *)
(* with no cooldown in effect 3 events of either kind make it return true, *)
(* and every true answer writes the one last-escalation stamp; while that  *)
(* stamp is less than 600 seconds old the call returns false whatever the  *)
(* two buffers hold.                                                       *)
Thm_C30_KindsSeparateCooldownShared ==
    [][ShouldEscalate =>
         /\ (Within(auth_denies) < 3 /\ Within(safety_blocks) < 3) =>
               ~hist'.ret /\ last_escalation' = last_escalation
         /\ (~CooldownInEffect /\ Within(auth_denies) >= 3) =>
               hist'.ret /\ last_escalation' = now
         /\ (~CooldownInEffect /\ Within(safety_blocks) >= 3) =>
               hist'.ret /\ last_escalation' = now
         /\ CooldownInEffect =>
               ~hist'.ret /\ last_escalation' = last_escalation]_vars

(* A call made during the cooldown has just returned false although 3      *)
(* denials are at most 60 seconds old; the cooldown was started by 3       *)
(* blocks, every denial having been recorded after the escalation.         *)
Wit_C30_BlockCooldownSuppressesDenials ==
    /\ hist.by = "should_escalate"
    /\ hist.prev = "cooldown"
    /\ ~hist.ret
    /\ Len(safety_blocks) = 3
    /\ safety_blocks[3] <= last_escalation
    /\ Len(auth_denies) = 3
    /\ Within(auth_denies) = 3
    /\ auth_denies[1] > last_escalation

(* A call made with no cooldown in effect has just returned false with 2   *)
(* denials and 2 blocks at most 60 seconds old.                            *)
TwoOfEachDoNotEscalate ==
    /\ hist.by = "should_escalate"
    /\ hist.prev = ""
    /\ ~hist.ret
    /\ Within(auth_denies) = 2
    /\ Within(safety_blocks) = 2
    /\ last_escalation = None

----------------------------------------------------------------------------
(* Pruning.                                                                *)

(* No timestamp of buf is more than 60 seconds older than t.               *)
AllRecent(buf, t) == \A i \in 1..Len(buf) : buf[i] >= t - 60

(* C31 as stated: after a call of should_escalate made with no cooldown in *)
(* effect, neither buffer holds a timestamp more than 60 seconds old.      *)
Cex_C31_BothBuffersPruned ==
    [][(ShouldEscalate /\ ~CooldownInEffect) =>
          /\ AllRecent(auth_denies', now)
          /\ AllRecent(safety_blocks', now)]_vars

(* C31 amended: after such a call the denial buffer holds no timestamp     *)
(* more than 60 seconds old; the block buffer holds none when fewer than 3 *)
(* denials were within the window, and is left as it was, stale timestamps *)
(* included, when the call returns true on the denials.                    *)
Thm_C31_BlocksPrunedUnlessDenialsEscalate ==
    [][(ShouldEscalate /\ ~CooldownInEffect) =>
          /\ AllRecent(auth_denies', now)
          /\ Within(auth_denies) < 3 => AllRecent(safety_blocks', now)
          /\ Within(auth_denies) >= 3 =>
                hist'.ret /\ safety_blocks' = safety_blocks]_vars

(* should_escalate has just returned true on 3 denials, with no cooldown   *)
(* in effect, and the block buffer still holds a timestamp more than 60    *)
(* seconds old.                                                            *)
Wit_C31_StaleBlockAfterTrue ==
    /\ hist.by = "should_escalate"
    /\ hist.prev = ""
    /\ hist.ret
    /\ Len(auth_denies) >= 3
    /\ AllRecent(auth_denies, now)
    /\ ~AllRecent(safety_blocks, now)

----------------------------------------------------------------------------
(* The mode lock.                                                          *)

(* The callers that hold the lock.                                         *)
InCriticalSection == {c \in Callers : hist.pc[c] \in {"inside", "leaving"}}

(* C32: at most one of get_mode, set_mode, the escalation write and the    *)
(* revert write holds the mode lock, the lock's flag is set exactly while  *)
(* one does, and none of them ever has to wait for it; the mode is always  *)
(* one of the three names; and what get_mode read is the mode for as long  *)
(* as it holds the lock, and is what it returns.                           *)
Thm_C32_ModeLockExcludes ==
    /\ Cardinality(InCriticalSection) <= 1
    /\ hist.locked <=> InCriticalSection # {}
    /\ \A c \in Callers : hist.pc[c] # "waiting"
    /\ security_mode \in Modes
    /\ hist.pc[1] = "leaving" => hist.got = security_mode
    /\ hist.returned \in Modes \cup {""}
    /\ hist.pc[1] = "out" => hist.returned = hist.got

(* get_mode has read STRICT_MODE under the lock, after the escalation      *)
(* write created the revert task that is still pending.                    *)
Wit_C32_ReadStrictUnderLock ==
    /\ hist.pc[1] = "leaving"
    /\ hist.locked
    /\ hist.got = "STRICT_MODE"
    /\ revert_task # None
    /\ tasks[revert_task].state = "sleeping"

----------------------------------------------------------------------------
(* The declared mode.                                                      *)

(* C33: the step a request takes at the pipeline entry is the same step    *)
(* whichever mode the request declares (the state it leaves, from which    *)
(* the rest of the pipeline runs, holds nothing of the declared mode), the *)
(* mode the request then carries is the live mode read at the entry, it    *)
(* keeps that mode to its end, and that is the mode field of its outcome.  *)
Thm_C33_DeclaredModeIsOverwritten ==
    [][\A p \in Procs :
          /\ Start(p) =>
                /\ \A declared \in Modes : StartWith(p, declared)
                /\ req'[p].security_mode = security_mode
          /\ (req[p].pc # "idle" /\ req'[p].pc # "idle") =>
                req'[p].security_mode = req[p].security_mode
          /\ req'[p].result.kind = "result" =>
                req'[p].result.security_mode = req'[p].security_mode]_vars

(* A request that entered while the live mode was STRICT_MODE has been     *)
(* answered with an outcome that carries STRICT_MODE, after the live mode  *)
(* moved on to NORMAL.                                                     *)
Wit_C33_OutcomeCarriesEntryMode ==
    \E p \in Procs :
        /\ req[p].pc = "done"
        /\ ~req[p].result.blocked
        /\ req[p].result.security_mode = "STRICT_MODE"
        /\ security_mode = "NORMAL"

----------------------------------------------------------------------------
(* Mode changes while a request is in flight.                              *)

(* C34 as stated: a scan of a message with a deny-list keyword is settled  *)
(* by the keyword filter, without a classifier call, exactly when the live *)
(* mode at the time of the scan is STRICT_MODE.                            *)
Cex_C34_FilterFollowsLiveMode ==
    [][\A p \in Procs :
          (Scan(p) /\ req[p].message \in KeywordMessages) =>
              (req'[p].safety_out = "not_called"
                   <=> security_mode = "STRICT_MODE")]_vars

(* C34 amended: such a scan is settled by the keyword filter exactly when  *)
(* the mode the request read at the pipeline entry is STRICT_MODE,         *)
(* whatever the live mode has become since.                                *)
Thm_C34_FilterFollowsEntryMode ==
    [][\A p \in Procs :
          (Scan(p) /\ req[p].message \in KeywordMessages) =>
              /\ req'[p].safety_out = "not_called"
                     <=> req[p].security_mode = "STRICT_MODE"
              /\ req'[p].safety_out = "not_called" =>
                     /\ req'[p].safety.action = "BLOCK"
                     /\ req'[p].n_safety = 0
              /\ req'[p].safety_out # "not_called" => req'[p].n_safety = 1]_vars

(* A request with a deny-list keyword entered in NORMAL, the mode became   *)
(* STRICT_MODE while it waited for its lookup, and its scan called the     *)
(* classifier instead of applying the filter.                              *)
Wit_C34_EnteredNormalScannedInStrict ==
    \E p \in Procs :
        /\ req[p].pc = "block_gate"
        /\ req[p].message \in KeywordMessages
        /\ req[p].security_mode = "NORMAL"
        /\ security_mode = "STRICT_MODE"
        /\ req[p].n_safety = 1

(* Request p starts its generator call, or returns an outcome that is not  *)
(* blocked, in this step.                                                  *)
GeneratesOrAnswers(p) ==
    \/ req'[p].n_generate > req[p].n_generate
    \/ Return(p) /\ req[p].pc = "done" /\ ~req[p].result.blocked

(* C35 as stated: no generator call is started and no unblocked outcome is *)
(* returned while the live mode is LOCKDOWN.                               *)
Cex_C35_LockdownStopsRequestsInFlight ==
    [][\A p \in Procs :
          GeneratesOrAnswers(p) => security_mode # "LOCKDOWN"]_vars

(* C35 amended: a generator call is started, and an unblocked outcome      *)
(* returned, only for a request that did not read LOCKDOWN at the pipeline *)
(* entry; the live mode at that moment may be any of the three.            *)
Thm_C35_LockdownStopsAtEntryOnly ==
    [][\A p \in Procs :
          GeneratesOrAnswers(p) =>
              /\ req[p].security_mode # "LOCKDOWN"
              /\ security_mode \in Modes]_vars

(* The generator has just answered a request that entered in NORMAL and    *)
(* needs no patient context, in a step taken while the live mode was       *)
(* LOCKDOWN.                                                               *)
Wit_C35_GeneratedDuringLockdown ==
    \E p \in Procs :
        /\ req[p].pc = "finish"
        /\ running = p
        /\ req[p].policy.scope = "NONE"
        /\ req[p].n_generate = 1
        /\ ~req[p].response.blocked
        /\ req[p].security_mode = "NORMAL"
        /\ security_mode = "LOCKDOWN"

----------------------------------------------------------------------------
(* The gates together.                                                     *)

----------------------------------------------------------------------------
(* The cooldown and the mode.                                              *)

(* C37 as stated: an escalation check that runs in mode NORMAL with three  *)
(* denials or three blocks within 60 seconds, when no automatic escalation *)
(* has taken place (no revert task was ever created), sets the mode to     *)
(* STRICT_MODE.                                                            *)
Cex_C37_BurstInNormalEscalates ==
    [][\A p \in Procs :
          (/\ DenyGate(p)
           /\ ~req[p].policy.authorized /\ ~req[p].policy.break_glass
           /\ security_mode = "NORMAL"
           /\ Within(auth_denies) + 1 >= 3 \/ Within(safety_blocks) >= 3
           /\ tasks = <<>>) =>
              security_mode' = "STRICT_MODE"]_vars

----------------------------------------------------------------------------
(* The revert timer.                                                       *)

(* The revert tasks that are pending: created, not cancelled, and not yet  *)
(* woken (the task that is running its revert has fired).                  *)
PendingTimers ==
    {i \in 1..Len(tasks) :
        /\ tasks[i].state = "sleeping"
        /\ ~(hist.pc[4] \in {"inside", "leaving"} /\ hist.task = i)}

(* C38: at most one revert task is pending, it is the one _revert_task     *)
(* refers to, and while one is pending the mode is STRICT_MODE and was     *)
(* last written by the escalation.                                         *)
Thm_C38_OnePendingTimerInAutoStrict ==
    /\ Cardinality(PendingTimers) <= 1
    /\ PendingTimers # {} =>
          /\ PendingTimers = {revert_task}
          /\ security_mode = "STRICT_MODE"
          /\ hist.writer = "_check_and_escalate"

(* A second revert task is pending after the first one was cancelled by a  *)
(* set_mode.                                                               *)
Wit_C38_SecondTimerPending ==
    /\ Len(tasks) = 2
    /\ tasks[1].state = "cancelled"
    /\ PendingTimers = {2}
    /\ security_mode = "STRICT_MODE"

----------------------------------------------------------------------------
(* Requests that touch neither the detector nor the mode.                  *)

(* A step of request p.                                                    *)
PipelineStep(p) ==
    \/ Start(p) \/ Classify(p) \/ Check(p) \/ TreatsReturn(p)
    \/ RoleReturn(p) \/ DenyGate(p) \/ Scan(p) \/ BlockGate(p)
    \/ HistoryReturn(p) \/ ContextReturn(p) \/ Finish(p) \/ Save(p)
    \/ Return(p)

(* The outcome of r is the LOCKDOWN refusal, the generation failure or the *)
(* success: an outcome without a policy or safety decision in it.          *)
QuietOutcome(r) ==
    /\ r.result.kind = "result"
    /\ "policy_decision" \notin DOMAIN r.result
    /\ "safety_decision" \notin DOMAIN r.result

----------------------------------------------------------------------------
(* One escalation for one set of events.                                   *)

(* C40 as stated: whatever the window, threshold and cooldown, no call of  *)
(* should_escalate returns true after an earlier call returned true with   *)
(* no event recorded in between.                                           *)
Cex_C40_NoRepeatInAnyConfiguration == ~hist.repeat

(* C40: when the threshold is at least 1 and the cooldown is longer than   *)
(* the window, as in the orchestrator's 60 s window, threshold 3 and 600 s *)
(* cooldown, no call of should_escalate returns true after an earlier call *)
(* returned true with no event recorded in between.                        *)
Thm_C40_NoRepeatWhenCooldownOutlastsWindow ==
    (hist.cfg.threshold >= 1 /\ hist.cfg.cooldown > hist.cfg.window) =>
        ~hist.repeat

(* Under the orchestrator's configuration should_escalate has returned     *)
(* true, the cooldown has since run out, no event was recorded in between, *)
(* and the call just made returned false.                                  *)
Wit_C40_SecondCallAfterCooldownIsFalse ==
    /\ hist.cfg = [window |-> window_seconds, threshold |-> threshold,
                   cooldown |-> cooldown_seconds]
    /\ hist.by = "should_escalate"
    /\ ~hist.ret
    /\ hist.fired
    /\ ~hist.fresh
    /\ last_escalation # None
    /\ now - last_escalation >= cooldown_seconds

====
